---- MODULE Spec2Model ----
(***************************************************************************)
(* Model of the VoiceSkip streaming transcription scheduler                *)
(* (lib/src/main/jni/stream.c) and of the part of its JNI controller       *)
(* (lib/src/main/jni/jni.c) that starts, stops and completes a stream run. *)
(*                                                                         *)
(* Samples are modelled at a reduced sample rate: one model sample per     *)
(* millisecond, ten per centisecond (the program has 16 and 160).  The     *)
(* ring buffer holds the stream positions 1, 2, 3, ... of the samples it   *)
(* contains, so that a wrong shift or copy is visible.                     *)
(*                                                                         *)
(* The inference engine and the VAD are external.  The engine is a stub    *)
(* that is deterministic in what it returns (raw segments, tokens,         *)
(* language) and nondeterministic in when it polls the abort callback.     *)
(* The VAD is a deterministic stub over the speech intervals of the audio. *)
(***************************************************************************)
EXTENDS Integers, Sequences, FiniteSets, TLC

VARIABLES
    env,    \* the run's inputs: stream parameters, audio, engine stub
    jni,    \* struct whisper_jni_context: session ids, language override, slots
    host,   \* the embedding application: audio position, calls made so far
    ctl,    \* the controller thread inside process_start_command
    cctx,   \* struct common_ctx
    tctx,   \* struct thread_ctx of worker 0 and worker 1
    loc,    \* per worker: position in process_one_chunk and its locals
    wctx,   \* per slot: the state of the whisper_context
    hist    \* observation only: chunks cut, events delivered, hand-offs

vars == <<env, jni, host, ctl, cctx, tctx, loc, wctx, hist>>

----------------------------------------------------------------------------
(* Bounds of the model *)

\* samples per second of the model (WHISPER_SAMPLE_RATE, scaled down)
WHISPER_SAMPLE_RATE == 1000
\* capacity of the token arrays (max_ctx_tokens = n_text_ctx / 2)
MaxCtxTokens == 2
\* calls of stop() the host makes
MaxStops == 1
\* calls of update_language() the host makes
MaxLangUpdates == 1
\* largest number of samples the host hands over in a short read
ReadBlock == 16
\* calls of set_duration() the host makes
MaxDurationUpdates == 2
\* commands the host enqueues
MaxCommands == 3

\* seconds of audio the VAD window starts before the search range
VadMarginSec == 5

MinChunkMsChoices == {10, 15}
ChunkExtendMsChoices == {10}
OverlapMsChoices == {0, 3, 14}
MinSilenceMsChoices == {10}
AudioLenChoices == {8, 20, 41}
\* speech intervals [a, b) of the audio, in samples from the stream start
SpeechChoices ==
    { <<>>,
      << [a |-> 0, b |-> 64] >>,
      << [a |-> 0, b |-> 5], [a |-> 21, b |-> 64] >> }
\* raw segments (centiseconds within the chunk) the engine stub reports per call
StubChoices ==
    { << [t0 |-> 0, t1 |-> 1] >>,
      << [t0 |-> 0, t1 |-> 2], [t0 |-> 1, t1 |-> 4] >>,
      << [t0 |-> 1, t1 |-> 3], [t0 |-> 0, t1 |-> 2] >> }
\* language ids: the one the engine detects in the audio, the ones the host sets
DetectedLangChoices == {1}
LangChoices == {2}
\* the durations in ms the host announces, and the percentages the engine
\* reports during one call
DurationMsChoices == {20, 41}
ProgressChoices == {50, 100}

Workers == {0, 1}
\* lang_id of "not known" and lang_override of "no override"
NoLang == -1

----------------------------------------------------------------------------
(* C arithmetic *)

\* integer division of C: truncates toward zero
CDiv(a, b) == IF a >= 0 THEN a \div b ELSE -((-a) \div b)

MIN(a, b) == IF a < b THEN a ELSE b

----------------------------------------------------------------------------
(* Boundary selection *)

check_gap_no_clamp(gap_start_cs, gap_end_cs, range_start_cs, range_end_cs, min_silence_ms) ==
    LET gap_ms == (gap_end_cs - gap_start_cs) * 10
        gap_middle_cs == CDiv(gap_start_cs + gap_end_cs, 2)
    IN  IF gap_ms < min_silence_ms THEN -1
        ELSE IF gap_start_cs >= range_end_cs \/ gap_end_cs <= range_start_cs THEN -1
        ELSE CDiv(gap_middle_cs * WHISPER_SAMPLE_RATE, 100)

check_gap(gap_start_cs, gap_end_cs, range_start_cs, range_end_cs, min_silence_ms) ==
    LET gap_ms == (gap_end_cs - gap_start_cs) * 10
        gap_middle_cs == CDiv(gap_start_cs + gap_end_cs, 2)
        clamped == IF gap_middle_cs < range_start_cs THEN range_start_cs
                   ELSE IF gap_middle_cs > range_end_cs THEN range_end_cs
                   ELSE gap_middle_cs
    IN  IF gap_ms < min_silence_ms THEN -1
        ELSE IF gap_start_cs >= range_end_cs \/ gap_end_cs <= range_start_cs THEN -1
        ELSE CDiv(clamped * WHISPER_SAMPLE_RATE, 100)

RECURSIVE silence_scan(_, _, _, _, _, _)
\* the loop of find_silence_in_segments from index i on, then the trailing gap
silence_scan(segs, i, vad_offset_cs, range_start_cs, range_end_cs, min_silence_ms) ==
    LET n_segs == Len(segs)
        last_end == segs[n_segs].t1 + vad_offset_cs
        tail == check_gap(last_end, range_end_cs, range_start_cs, range_end_cs,
                          min_silence_ms)
    IN  IF i > n_segs - 1 THEN tail
        ELSE LET gap_start == segs[i].t1 + vad_offset_cs
                 gap_end == segs[i + 1].t0 + vad_offset_cs
                 pos == check_gap(gap_start, gap_end, range_start_cs, range_end_cs,
                                  min_silence_ms)
             IN  IF gap_end <= range_start_cs
                 THEN silence_scan(segs, i + 1, vad_offset_cs, range_start_cs,
                                   range_end_cs, min_silence_ms)
                 ELSE IF gap_start >= range_end_cs THEN tail
                 ELSE IF pos >= 0 THEN pos
                 ELSE silence_scan(segs, i + 1, vad_offset_cs, range_start_cs,
                                   range_end_cs, min_silence_ms)

\* segs = << >> stands for the NULL pointer
find_silence_in_segments(segs, range_start_samples, range_end_samples, min_silence_ms, vad_offset) ==
    IF Len(segs) = 0 THEN -1
    ELSE silence_scan(segs, 1,
                      CDiv(vad_offset * 100, WHISPER_SAMPLE_RATE),
                      CDiv(range_start_samples * 100, WHISPER_SAMPLE_RATE),
                      CDiv(range_end_samples * 100, WHISPER_SAMPLE_RATE),
                      min_silence_ms)

find_chunk_boundary(cc, available, vad_segs, vad_offset) ==
    LET search_start == cc.min_chunk_samples
        search_end == MIN(cc.max_chunk_samples, available)
        silence_pos == find_silence_in_segments(vad_segs, search_start, search_end,
                                                cc.min_silence_ms, vad_offset)
    IN  IF search_start >= search_end
        THEN [boundary |-> search_end, silence_found |-> 0]
        ELSE IF Len(vad_segs) = 0
        THEN [boundary |-> search_start, silence_found |-> 0]
        ELSE IF silence_pos > 0
        THEN [boundary |-> silence_pos, silence_found |-> cc.min_silence_ms]
        ELSE [boundary |-> search_end, silence_found |-> 0]

make_chunk_info_no_tail(cc, chunk_samples, buffer_len, overlap_offset, total_samples, eof) ==
    [chunk_samples |-> chunk_samples,
     actual_chunk_samples |-> chunk_samples + overlap_offset,
     overlap_offset |-> overlap_offset,
     time_offset |-> CDiv(100 * (total_samples - overlap_offset),
                          WHISPER_SAMPLE_RATE)]

make_chunk_info_time_of_new(cc, chunk_samples, buffer_len, overlap_offset, total_samples, eof) ==
    LET cs == IF eof /\ buffer_len - chunk_samples < cc.min_chunk_samples
              THEN buffer_len ELSE chunk_samples
    IN  [chunk_samples |-> cs,
         actual_chunk_samples |-> cs + overlap_offset,
         overlap_offset |-> overlap_offset,
         time_offset |-> CDiv(100 * total_samples, WHISPER_SAMPLE_RATE)]

make_chunk_info(cc, chunk_samples, buffer_len, overlap_offset, total_samples, eof) ==
    LET cs == IF eof /\ buffer_len - chunk_samples < cc.min_chunk_samples
              THEN buffer_len ELSE chunk_samples
    IN  [chunk_samples |-> cs,
         actual_chunk_samples |-> cs + overlap_offset,
         overlap_offset |-> overlap_offset,
         time_offset |-> CDiv(100 * (total_samples - overlap_offset),
                              WHISPER_SAMPLE_RATE)]

\* The VAD stub: the speech intervals of the audio that fall into the slice,
\* relative to its first sample, in centiseconds; << >> when there are none.
detect_vad_segments(speech, slice) ==
    IF Len(slice) = 0 THEN << >>
    ELSE LET s0 == slice[1] - 1
             s1 == s0 + Len(slice)
             lo(iv) == IF iv.a > s0 THEN iv.a ELSE s0
             hi(iv) == IF iv.b < s1 THEN iv.b ELSE s1
             kept == SelectSeq(speech, LAMBDA iv : lo(iv) < hi(iv))
         IN  [k \in 1..Len(kept) |->
                [t0 |-> CDiv((lo(kept[k]) - s0) * 100, WHISPER_SAMPLE_RATE),
                 t1 |-> CDiv((hi(kept[k]) - s0) * 100, WHISPER_SAMPLE_RATE)]]

----------------------------------------------------------------------------
(* Construction *)

NoChunk ==
    [chunk_samples |-> 0, actual_chunk_samples |-> 0, overlap_offset |-> 0,
     time_offset |-> 0]

init_common_ctx(sp, single_thread) ==
    LET min_chunk_samples == CDiv(WHISPER_SAMPLE_RATE * sp.min_chunk_ms, 1000)
        max_chunk_samples ==
            min_chunk_samples + CDiv(WHISPER_SAMPLE_RATE * sp.chunk_extend_ms, 1000)
        overlap_samples == CDiv(WHISPER_SAMPLE_RATE * sp.overlap_ms, 1000)
    IN  [next_chunk_idx |-> 0,
         total_samples_read |-> 0,
         eof |-> FALSE,
         abort |-> FALSE,
         single_thread |-> single_thread,
         overlap_samples |-> overlap_samples,
         min_chunk_samples |-> min_chunk_samples,
         max_chunk_samples |-> max_chunk_samples,
         min_silence_ms |-> sp.min_silence_ms,
         max_ctx_tokens |-> MaxCtxTokens,
         read_buffer |-> << >>,
         buffer_size |-> max_chunk_samples + overlap_samples,
         progress_reporter |-> 0]

init_thread_ctx(slot, parity) ==
    [vad_ctx |-> slot.vad_ctx,
     parity |-> parity,
     buffer |-> << >>,
     tokens |-> << >>,
     lang_id |-> NoLang,
     context_ready |-> FALSE,
     time_offset |-> 0,
     output_start |-> 0,
     last_t1 |-> 0,
     samples_before_chunk |-> 0,
     chunk_samples |-> 0]

InitLoc(pc) ==
    [pc |-> pc, chunk_idx |-> 0, total_samples |-> 0, eof |-> FALSE,
     ci |-> NoChunk, seg_i |-> 0, ret |-> 0, prog |-> -1]

InitWctx == [prompt |-> << >>, prompt_past |-> << >>, lang_id |-> NoLang]

InitHist ==
    [begun |-> << >>, chunks |-> << >>, events |-> << >>,
     passed |-> {}, ctxcb |-> {}, stop_blocked |-> {}, faults |-> {},
     executed |-> << >>, loads |-> {}, stop_chunking |-> {},
     destroy_in_engine |-> {},
     run |-> 1, first_run |-> << >>]

\* the configurations whisper_stream_full accepts (its assertions)
SparamsChoices ==
    { sp \in [min_chunk_ms : MinChunkMsChoices,
              chunk_extend_ms : ChunkExtendMsChoices,
              overlap_ms : OverlapMsChoices,
              min_silence_ms : MinSilenceMsChoices] :
        sp.min_chunk_ms > 0 /\ sp.overlap_ms >= 0 /\ sp.overlap_ms < sp.min_chunk_ms }

EnvChoices ==
    { e \in [sparams : SparamsChoices,
             audio_len : AudioLenChoices,
             speech : SpeechChoices,
             stub : StubChoices,
             lang : DetectedLangChoices,
             vad : BOOLEAN,
             dual : BOOLEAN,
             faults : {{}}] :
        ~e.vad => e.speech = << >> }

InitFor(e) ==
    /\ env = e
    /\ jni = [session_id |-> 0,
              start_session_id |-> 0,
              lang_override |-> NoLang,
              duration_samples |-> 0,
              queue |-> << >>,
              should_shutdown |-> FALSE,
              slots |-> [w \in Workers |->
                           [ctx |-> (w = 0 \/ e.dual), vad_ctx |-> e.vad]]]
    /\ host = [pos |-> 0, stops |-> 0, lang_updates |-> 0, duration_updates |-> 0,
               enqueued |-> 0, destroy |-> "none"]
    /\ ctl = [pc |-> "queued", args_session_id |-> 0, result |-> 0,
              was_stopped |-> FALSE]
    /\ cctx = init_common_ctx(e.sparams, ~e.dual)
    /\ tctx = [w \in Workers |-> init_thread_ctx([ctx |-> FALSE, vad_ctx |-> FALSE], w)]
    /\ loc = [w \in Workers |-> InitLoc("none")]
    /\ wctx = [w \in Workers |-> InitWctx]
    /\ hist = InitHist

Init == \E e \in EnvChoices : InitFor(e)

----------------------------------------------------------------------------
(* Callbacks of the JNI layer *)

whisper_abort_callback_impl == jni.start_session_id # jni.session_id

jni_language_callback == jni.lang_override

stream_abort_callback == cctx.abort \/ whisper_abort_callback_impl

\* the slot whose inference context jni_segment_callback reads the language from
SLOT_MAIN == 0

\* the slots whose inference context a segment delivery on worker w's thread
\* reads: stream_segment_callback reads the context of the call, which is
\* worker w's, and jni_segment_callback reads slots[SLOT_MAIN].ctx
segment_callback_contexts(w) == {w, SLOT_MAIN}

\* the slots whose inference context pass_context by worker w reads
pass_context_contexts(w) == {w}

\* what jni_segment_callback hands to onNewSegment
jni_segment_callback(w, t0, t1, text) ==
    [type |-> "new_segment",
     start_ms |-> t0 * 10,
     end_ms |-> t1 * 10,
     text |-> text,
     lang |-> IF wctx[SLOT_MAIN].lang_id >= 0 THEN wctx[SLOT_MAIN].lang_id ELSE NoLang,
     t0 |-> t0,
     t1 |-> t1,
     chunk |-> loc[w].chunk_idx,
     worker |-> w,
     raw |-> env.stub[loc[w].seg_i + 1],
     after_stop |-> whisper_abort_callback_impl]

----------------------------------------------------------------------------
(* Condition variable *)

\* pthread_cond_signal by worker w: the worker waiting on the condition
\* variable, if any, leaves pthread_cond_wait and tests its condition again
pthread_cond_signal(l, w) ==
    [v \in Workers |->
        IF v # w /\ l[v].pc = "turn_wait" THEN [l[v] EXCEPT !.pc = "wait_for_turn"]
        ELSE IF v # w /\ l[v].pc = "ctx_wait" THEN [l[v] EXCEPT !.pc = "context_callback"]
        ELSE l[v]]

\* the condition wait_for_turn waits on
turn_blocked_other_parity(cc, parity) == (cc.next_chunk_idx % 2 = parity) /\ ~cc.eof

turn_blocked_never(cc, parity) == FALSE

turn_blocked_ignores_eof(cc, parity) == cc.next_chunk_idx % 2 # parity

turn_blocked(cc, parity) == (cc.next_chunk_idx % 2 # parity) /\ ~cc.eof

\* the condition stream_context_callback waits on
context_blocked_no_abort(cc, t) == ~t.context_ready

context_blocked_never(cc, t) == FALSE

context_blocked(cc, t) == ~t.context_ready /\ ~cc.abort

----------------------------------------------------------------------------
(* The controller thread: process_start_command *)

\* report_error: the event onError receives
report_error(step, slot) ==
    [type |-> "error", step |-> step, slot |-> slot,
     after_stop |-> whisper_abort_callback_impl]

\* the test process_start_command makes first
model_loaded_always(slots) == TRUE

model_loaded(slots) == slots[0].ctx

\* whether the allocations of init_common_ctx and init_thread_ctx succeed
AllocOutcomes == IF "alloc" \in env.faults THEN BOOLEAN ELSE {TRUE}

ProcessStartCommand_no_session_test ==
    /\ ctl.pc = "queued"
    /\ IF ~model_loaded(jni.slots)
       THEN /\ ctl' = [ctl EXCEPT !.pc = "idle"]
            /\ hist' = [hist EXCEPT !.events = Append(@, report_error("start", 0))]
            /\ UNCHANGED <<jni, cctx, tctx, loc>>
       ELSE /\ jni' = [jni EXCEPT !.lang_override = NoLang,
                                  !.start_session_id = ctl.args_session_id]
            /\ \E allocated \in AllocOutcomes :
                  IF allocated
                  THEN /\ ctl' = [ctl EXCEPT !.pc = "stream"]
                       /\ cctx' = init_common_ctx(env.sparams, ~jni.slots[1].ctx)
                       /\ tctx' = [w \in Workers |-> init_thread_ctx(jni.slots[w], w)]
                       /\ loc' = [w \in Workers |->
                                    InitLoc(IF w = 0 \/ jni.slots[1].ctx
                                            THEN "wait_for_turn" ELSE "none")]
                       /\ UNCHANGED hist
                  ELSE /\ ctl' = [ctl EXCEPT !.pc = "init_failed"]
                       /\ hist' = [hist EXCEPT !.faults = @ \cup {"alloc"}]
                       /\ UNCHANGED <<cctx, tctx, loc>>
    /\ UNCHANGED <<env, host, wctx>>

\* process_start_command up to the start of the workers; when an allocation
\* fails whisper_stream_full returns -1 before any chunk
ProcessStartCommand_keeps_override ==
    /\ ctl.pc = "queued"
    /\ IF ~model_loaded(jni.slots)
       THEN /\ ctl' = [ctl EXCEPT !.pc = "idle"]
            /\ hist' = [hist EXCEPT !.events = Append(@, report_error("start", 0))]
            /\ UNCHANGED <<jni, cctx, tctx, loc>>
       ELSE IF ctl.args_session_id # jni.session_id
       THEN /\ ctl' = [ctl EXCEPT !.pc = "idle"]
            /\ UNCHANGED <<jni, cctx, tctx, loc, hist>>
       ELSE /\ jni' = [jni EXCEPT !.start_session_id = ctl.args_session_id]
            /\ \E allocated \in AllocOutcomes :
                  IF allocated
                  THEN /\ ctl' = [ctl EXCEPT !.pc = "stream"]
                       /\ cctx' = init_common_ctx(env.sparams, ~jni.slots[1].ctx)
                       /\ tctx' = [w \in Workers |-> init_thread_ctx(jni.slots[w], w)]
                       /\ loc' = [w \in Workers |->
                                    InitLoc(IF w = 0 \/ jni.slots[1].ctx
                                            THEN "wait_for_turn" ELSE "none")]
                       /\ UNCHANGED hist
                  ELSE /\ ctl' = [ctl EXCEPT !.pc = "init_failed"]
                       /\ hist' = [hist EXCEPT !.faults = @ \cup {"alloc"}]
                       /\ UNCHANGED <<cctx, tctx, loc>>
    /\ UNCHANGED <<env, host, wctx>>

ProcessStartCommand ==
    /\ ctl.pc = "queued"
    /\ IF ~model_loaded(jni.slots)
       THEN /\ ctl' = [ctl EXCEPT !.pc = "idle"]
            /\ hist' = [hist EXCEPT !.events = Append(@, report_error("start", 0))]
            /\ UNCHANGED <<jni, cctx, tctx, loc>>
       ELSE IF ctl.args_session_id # jni.session_id
       THEN /\ ctl' = [ctl EXCEPT !.pc = "idle"]
            /\ UNCHANGED <<jni, cctx, tctx, loc, hist>>
       ELSE /\ jni' = [jni EXCEPT !.lang_override = NoLang,
                                  !.start_session_id = ctl.args_session_id]
            /\ \E allocated \in AllocOutcomes :
                  IF allocated
                  THEN /\ ctl' = [ctl EXCEPT !.pc = "stream"]
                       /\ cctx' = init_common_ctx(env.sparams, ~jni.slots[1].ctx)
                       /\ tctx' = [w \in Workers |-> init_thread_ctx(jni.slots[w], w)]
                       /\ loc' = [w \in Workers |->
                                    InitLoc(IF w = 0 \/ jni.slots[1].ctx
                                            THEN "wait_for_turn" ELSE "none")]
                       /\ UNCHANGED hist
                  ELSE /\ ctl' = [ctl EXCEPT !.pc = "init_failed"]
                       /\ hist' = [hist EXCEPT !.faults = @ \cup {"alloc"}]
                       /\ UNCHANGED <<cctx, tctx, loc>>
    /\ UNCHANGED <<env, host, wctx>>

StreamFullReturn_zero ==
    /\ ctl.pc \in {"stream", "init_failed"}
    /\ ctl.pc = "stream" =>
          /\ loc[0].pc = "exited"
          /\ cctx.single_thread \/ loc[1].pc = "exited"
    /\ ctl' = [ctl EXCEPT !.pc = "complete",
                          !.result = 0,
                          !.was_stopped = (jni.start_session_id # jni.session_id)]
    /\ UNCHANGED <<env, jni, host, cctx, tctx, loc, wctx, hist>>

\* whisper_stream_full joins the second worker and returns; the controller
\* then reads the session counter
StreamFullReturn ==
    /\ ctl.pc \in {"stream", "init_failed"}
    /\ ctl.pc = "stream" =>
          /\ loc[0].pc = "exited"
          /\ cctx.single_thread \/ loc[1].pc = "exited"
    /\ ctl' = [ctl EXCEPT !.pc = "complete",
                          !.result = IF ctl.pc = "init_failed" \/ cctx.abort
                                     THEN -1 ELSE 0,
                          !.was_stopped = (jni.start_session_id # jni.session_id)]
    /\ UNCHANGED <<env, jni, host, cctx, tctx, loc, wctx, hist>>

ReportStreamComplete_always ==
    /\ ctl.pc = "complete"
    /\ ctl' = [ctl EXCEPT !.pc = "idle"]
    /\ hist' = [hist EXCEPT !.events = Append(@,
                   [type |-> "stream_complete",
                    success |-> (ctl.result = 0),
                    after_stop |-> whisper_abort_callback_impl])]
    /\ UNCHANGED <<env, jni, host, cctx, tctx, loc, wctx>>

\* the end of process_start_command: onStreamComplete unless the session changed
ReportStreamComplete ==
    /\ ctl.pc = "complete"
    /\ ctl' = [ctl EXCEPT !.pc = "idle"]
    /\ hist' = IF ctl.was_stopped THEN hist
               ELSE [hist EXCEPT !.events = Append(@,
                        [type |-> "stream_complete",
                         success |-> (ctl.result = 0),
                         after_stop |-> whisper_abort_callback_impl])]
    /\ UNCHANGED <<env, jni, host, cctx, tctx, loc, wctx>>

----------------------------------------------------------------------------
(* The controller thread: the command queue and load_model *)

enqueue_command_node(q, node) == Append(q, node)

dequeue_command_last(q) ==
    [node |-> q[Len(q)], queue |-> SubSeq(q, 1, Len(q) - 1)]

\* dequeue_command on a queue that is not empty
dequeue_command(q) == [node |-> Head(q), queue |-> Tail(q)]

\* the steps of load_model that can fail
LoadOutcomes(args) ==
    {"ok", "asset_manager", "model_open", "model_init"}
       \cup (IF args.vad_model_path THEN {"vad_open", "vad_init"} ELSE {})

\* load_model: the slot it leaves and the event it delivers
load_model(slots, slot_idx, args, outcome) ==
    LET freed == [slots EXCEPT ![slot_idx] = [ctx |-> FALSE, vad_ctx |-> FALSE]]
        with_ctx == [slots EXCEPT ![slot_idx] = [ctx |-> TRUE, vad_ctx |-> FALSE]]
    IN  IF ~args.model_path
        THEN [slots |-> freed, events |-> << >>]
        ELSE IF outcome \in {"asset_manager", "model_open", "model_init"}
        THEN [slots |-> freed, events |-> << report_error(outcome, slot_idx) >>]
        ELSE IF outcome \in {"vad_open", "vad_init"}
        THEN [slots |-> with_ctx, events |-> << report_error(outcome, slot_idx) >>]
        ELSE [slots |-> [slots EXCEPT ![slot_idx] =
                           [ctx |-> TRUE, vad_ctx |-> args.vad_model_path]],
              events |-> << [type |-> "loaded", slot |-> slot_idx,
                             after_stop |-> whisper_abort_callback_impl] >>]

\* worker_thread_func takes CMD_LOAD_MODEL or CMD_LOAD_SECOND_MODEL and runs
\* load_model
LoadModel ==
    LET d == dequeue_command(jni.queue)
        slot_idx == IF d.node.type = "CMD_LOAD_MODEL" THEN 0 ELSE 1
    IN  /\ ctl.pc = "idle"
        /\ ~jni.should_shutdown
        /\ jni.queue # << >>
        /\ d.node.type \in {"CMD_LOAD_MODEL", "CMD_LOAD_SECOND_MODEL"}
        /\ \E outcome \in LoadOutcomes(d.node) :
              LET r == load_model(jni.slots, slot_idx, d.node, outcome)
              IN  /\ jni' = [jni EXCEPT !.queue = d.queue, !.slots = r.slots]
                  /\ hist' = [hist EXCEPT
                                !.events = @ \o r.events,
                                !.executed = Append(@, d.node.seq),
                                !.loads = @ \cup
                                   {[seq |-> d.node.seq, slot |-> slot_idx,
                                     model_path |-> d.node.model_path,
                                     outcome |-> outcome,
                                     events |-> r.events,
                                     slot_after |-> r.slots[slot_idx]]}]
        /\ UNCHANGED <<env, host, ctl, cctx, tctx, loc, wctx>>

\* worker_thread_func takes CMD_START and calls process_start_command
DequeueStart ==
    LET d == dequeue_command(jni.queue)
    IN  /\ ctl.pc = "idle"
        /\ ~jni.should_shutdown
        /\ jni.queue # << >>
        /\ d.node.type = "CMD_START"
        /\ jni' = [jni EXCEPT !.queue = d.queue]
        /\ ctl' = [ctl EXCEPT !.pc = "queued", !.args_session_id = d.node.session_id]
        /\ hist' = [hist EXCEPT !.executed = Append(@, d.node.seq)]
        /\ UNCHANGED <<env, host, cctx, tctx, loc, wctx>>

----------------------------------------------------------------------------
(* The host *)

\* a native method allocates a command and appends it to the queue
Enqueue(type, model_path, vad_model_path) ==
    /\ host.enqueued < MaxCommands
    /\ host' = [host EXCEPT !.enqueued = @ + 1]
    /\ jni' = [jni EXCEPT !.queue = enqueue_command_node(@,
                  [type |-> type, model_path |-> model_path,
                   vad_model_path |-> vad_model_path,
                   session_id |-> jni.session_id,
                   seq |-> host.enqueued + 1])]
    /\ UNCHANGED <<env, ctl, cctx, tctx, loc, wctx, hist>>

nativeLoadModel ==
    \E vad_model_path \in BOOLEAN : Enqueue("CMD_LOAD_MODEL", TRUE, vad_model_path)

\* a NULL model_path unloads the second slot
nativeLoadSecondModel ==
    \E model_path \in BOOLEAN, vad_model_path \in BOOLEAN :
       /\ vad_model_path => model_path
       /\ Enqueue("CMD_LOAD_SECOND_MODEL", model_path, vad_model_path)

nativeStart == Enqueue("CMD_START", FALSE, FALSE)

nativeStop ==
    /\ host.stops < MaxStops
    /\ host' = [host EXCEPT !.stops = @ + 1]
    /\ jni' = [jni EXCEPT !.session_id = @ + 1]
    /\ hist' = [hist EXCEPT !.stop_blocked =
                  IF ctl.pc = "stream"
                  THEN {w \in Workers : loc[w].pc \in {"turn_wait", "ctx_wait"}}
                  ELSE @]
    /\ UNCHANGED <<env, ctl, cctx, tctx, loc, wctx>>

\* stop() called while a worker of the run is between wait_for_turn and the
\* cut of its chunk
StopInChunking ==
    /\ host.stops < MaxStops
    /\ ctl.pc = "stream"
    /\ \E w \in Workers : loc[w].pc = "fill"
    /\ host' = [host EXCEPT !.stops = @ + 1]
    /\ jni' = [jni EXCEPT !.session_id = @ + 1]
    /\ hist' = [hist EXCEPT
                  !.stop_blocked = {w \in Workers : loc[w].pc \in {"turn_wait", "ctx_wait"}},
                  !.stop_chunking =
                     @ \cup {[worker |-> w, idx |-> loc[w].chunk_idx] :
                               w \in {v \in Workers : loc[v].pc = "fill"}}]
    /\ UNCHANGED <<env, ctl, cctx, tctx, loc, wctx>>

nativeUpdateLanguage ==
    /\ host.lang_updates < MaxLangUpdates
    /\ \E l \in LangChoices \cup {NoLang} :
          /\ l # jni.lang_override
          /\ jni' = [jni EXCEPT !.lang_override = l]
    /\ host' = [host EXCEPT !.lang_updates = @ + 1]
    /\ UNCHANGED <<env, ctl, cctx, tctx, loc, wctx, hist>>

nativeSetDuration ==
    /\ host.duration_updates < MaxDurationUpdates
    /\ \E duration_ms \in DurationMsChoices :
          LET samples == (duration_ms * WHISPER_SAMPLE_RATE) \div 1000
          IN  /\ samples # jni.duration_samples
              /\ jni' = [jni EXCEPT !.duration_samples = samples]
    /\ host' = [host EXCEPT !.duration_updates = @ + 1]
    /\ UNCHANGED <<env, ctl, cctx, tctx, loc, wctx, hist>>

\* what readAudio returns for a request of n_max samples: all it can give, or
\* a short read
HostReads(n_max) ==
    LET remaining == env.audio_len - host.pos
    IN  {MIN(n_max, remaining), MIN(ReadBlock, MIN(n_max, remaining))}

\* jni_read_callback: 0 once the session changed, -1 when the array cannot be
\* allocated or readAudio throws, else what readAudio returns
jni_read_callback(n_max) ==
    IF jni.start_session_id # jni.session_id THEN {0}
    ELSE HostReads(n_max) \cup (IF "read" \in env.faults THEN {-1} ELSE {})


----------------------------------------------------------------------------
(* process_one_chunk, step by step *)

\* a worker leaves its loop when process_one_chunk returns nonzero
Returns(l, ret) ==
    [l EXCEPT !.pc = IF ret = 0 THEN "wait_for_turn" ELSE "exited",
              !.ret = ret, !.ci = NoChunk, !.seg_i = 0, !.eof = FALSE,
              !.chunk_idx = 0, !.total_samples = 0]

WaitForTurn(w) ==
    /\ loc[w].pc = "wait_for_turn"
    /\ IF ~cctx.single_thread /\ turn_blocked(cctx, tctx[w].parity)
       THEN /\ loc' = [loc EXCEPT ![w].pc = "turn_wait"]
            /\ UNCHANGED hist
       ELSE IF cctx.eof
       THEN /\ loc' = [loc EXCEPT ![w] = Returns(@, -1)]
            /\ UNCHANGED hist
       ELSE /\ loc' = [loc EXCEPT ![w].pc = "fill",
                                  ![w].chunk_idx = cctx.next_chunk_idx,
                                  ![w].total_samples = cctx.total_samples_read,
                                  ![w].eof = FALSE]
            /\ hist' = [hist EXCEPT !.begun = Append(@,
                          [idx |-> cctx.next_chunk_idx, worker |-> w])]
    /\ UNCHANGED <<env, jni, host, ctl, cctx, tctx, wctx>>

FillReadBuffer_asks_target(w) ==
    LET target_len == cctx.max_chunk_samples + cctx.overlap_samples
        buffer_len == Len(cctx.read_buffer)
    IN  /\ loc[w].pc = "fill"
        /\ buffer_len < target_len /\ ~loc[w].eof
        /\ \E n_read \in jni_read_callback(target_len) :
              /\ IF n_read <= 0
                 THEN /\ loc' = [loc EXCEPT ![w].eof = TRUE]
                      /\ UNCHANGED <<cctx, host>>
                 ELSE /\ cctx' = [cctx EXCEPT !.read_buffer =
                                     @ \o [k \in 1..n_read |-> host.pos + k]]
                      /\ host' = [host EXCEPT !.pos = @ + n_read]
                      /\ UNCHANGED loc
              /\ hist' = IF n_read < 0
                         THEN [hist EXCEPT !.faults = @ \cup {"read"}]
                         ELSE hist
        /\ UNCHANGED <<env, jni, ctl, tctx, wctx>>

\* one iteration of the loop of fill_read_buffer
FillReadBuffer(w) ==
    LET target_len == cctx.max_chunk_samples + cctx.overlap_samples
        buffer_len == Len(cctx.read_buffer)
    IN  /\ loc[w].pc = "fill"
        /\ buffer_len < target_len /\ ~loc[w].eof
        /\ \E n_read \in jni_read_callback(cctx.buffer_size - buffer_len) :
              /\ IF n_read <= 0
                 THEN /\ loc' = [loc EXCEPT ![w].eof = TRUE]
                      /\ UNCHANGED <<cctx, host>>
                 ELSE /\ cctx' = [cctx EXCEPT !.read_buffer =
                                     @ \o [k \in 1..n_read |-> host.pos + k]]
                      /\ host' = [host EXCEPT !.pos = @ + n_read]
                      /\ UNCHANGED loc
              /\ hist' = IF n_read < 0
                         THEN [hist EXCEPT !.faults = @ \cup {"read"}]
                         ELSE hist
        /\ UNCHANGED <<env, jni, ctl, tctx, wctx>>

\* set_eof: the locked section and its signal
set_eof(w, and_abort) ==
    /\ cctx' = [cctx EXCEPT !.eof = TRUE, !.abort = (@ \/ and_abort)]
    /\ loc' = pthread_cond_signal(
                 [loc EXCEPT ![w] = Returns(@, IF and_abort THEN loc[w].ret ELSE -1)],
                 w)

\* the speech intervals the worker's VAD finds for the chunk being cut
vad_for_chunk(w) ==
    LET buffer_len == Len(cctx.read_buffer)
        overlap_offset == IF loc[w].chunk_idx > 0 THEN cctx.overlap_samples ELSE 0
        margin == VadMarginSec * WHISPER_SAMPLE_RATE
        vad_start == IF cctx.min_chunk_samples - margin < 0 THEN 0
                     ELSE cctx.min_chunk_samples - margin
        available == buffer_len - overlap_offset
        vad_len == MIN(available - vad_start, cctx.max_chunk_samples - vad_start)
    IN  [vad_start |-> IF tctx[w].vad_ctx THEN vad_start ELSE 0,
         vad_segs |->
            IF tctx[w].vad_ctx /\ vad_start < available /\ vad_len > 0
            THEN detect_vad_segments(env.speech,
                    SubSeq(cctx.read_buffer, overlap_offset + vad_start + 1,
                           overlap_offset + vad_start + vad_len))
            ELSE << >>]

\* process_one_chunk from the end of the fill to the copy into the worker's
\* buffer: VAD, boundary selection, chunk descriptor, memcpy
CutChunk(w) ==
    LET target_len == cctx.max_chunk_samples + cctx.overlap_samples
        buffer_len == Len(cctx.read_buffer)
        overlap_offset == IF loc[w].chunk_idx > 0 THEN cctx.overlap_samples ELSE 0
        vad == vad_for_chunk(w)
        found == find_chunk_boundary(cctx, buffer_len - overlap_offset,
                                     vad.vad_segs, vad.vad_start)
        ci == make_chunk_info(cctx, found.boundary, buffer_len - overlap_offset,
                              overlap_offset, loc[w].total_samples, loc[w].eof)
    IN  /\ loc[w].pc = "fill"
        /\ ~(buffer_len < target_len /\ ~loc[w].eof)
        /\ IF buffer_len <= overlap_offset
           THEN /\ set_eof(w, FALSE)
                /\ UNCHANGED tctx
           ELSE /\ tctx' = [tctx EXCEPT
                              ![w].buffer = SubSeq(cctx.read_buffer, 1,
                                                   ci.actual_chunk_samples),
                              ![w].samples_before_chunk = loc[w].total_samples,
                              ![w].chunk_samples = ci.chunk_samples]
                /\ loc' = [loc EXCEPT ![w].pc = "handoff", ![w].ci = ci]
                /\ UNCHANGED cctx
        /\ UNCHANGED <<env, jni, host, ctl, wctx, hist>>

handoff_to_next_no_overlap(cc, ci, total_samples, chunk_idx, is_eof) ==
    LET keep_start == ci.actual_chunk_samples
        keep_len == Len(cc.read_buffer) - keep_start
    IN  [cc EXCEPT
           !.read_buffer = IF keep_len > 0
                           THEN SubSeq(@, keep_start + 1, keep_start + keep_len)
                           ELSE << >>,
           !.total_samples_read = total_samples + ci.chunk_samples,
           !.next_chunk_idx = chunk_idx + 1,
           !.eof = (@ \/ (is_eof /\ keep_len <= cc.overlap_samples))]

\* the shared state after handoff_to_next
handoff_to_next(cc, ci, total_samples, chunk_idx, is_eof) ==
    LET keep_start == IF ci.actual_chunk_samples - cc.overlap_samples < 0 THEN 0
                      ELSE ci.actual_chunk_samples - cc.overlap_samples
        keep_len == Len(cc.read_buffer) - keep_start
    IN  [cc EXCEPT
           !.read_buffer = IF keep_len > 0
                           THEN SubSeq(@, keep_start + 1, keep_start + keep_len)
                           ELSE << >>,
           !.total_samples_read = total_samples + ci.chunk_samples,
           !.next_chunk_idx = chunk_idx + 1,
           !.eof = (@ \/ (is_eof /\ keep_len <= cc.overlap_samples))]

\* handoff_to_next, then the start of the engine call
HandoffToNext(w) ==
    LET ci == loc[w].ci
    IN  /\ loc[w].pc = "handoff"
        /\ cctx' = handoff_to_next(cctx, ci, loc[w].total_samples,
                                   loc[w].chunk_idx, loc[w].eof)
        /\ tctx' = [tctx EXCEPT
                      ![w].time_offset = ci.time_offset,
                      ![w].output_start = ci.time_offset
                          + CDiv(ci.overlap_offset * 100, WHISPER_SAMPLE_RATE)]
        /\ loc' = LET l == [loc EXCEPT
                              ![w].pc = IF loc[w].chunk_idx > 0
                                        THEN "context_callback" ELSE "whisper_full",
                              ![w].seg_i = 0]
                  IN  IF cctx.single_thread THEN l ELSE pthread_cond_signal(l, w)
        /\ hist' = [hist EXCEPT !.chunks = Append(@,
                      [idx |-> loc[w].chunk_idx,
                       worker |-> w,
                       chunk_samples |-> ci.chunk_samples,
                       actual_chunk_samples |-> ci.actual_chunk_samples,
                       overlap_offset |-> ci.overlap_offset,
                       time_offset |-> ci.time_offset,
                       samples_before |-> loc[w].total_samples,
                       buffer |-> tctx[w].buffer,
                       ring_len |-> Len(cctx.read_buffer),
                       eof |-> loc[w].eof])]
        /\ UNCHANGED <<env, jni, host, ctl, wctx>>

----------------------------------------------------------------------------
(* The engine call: whisper_full and its callbacks *)

\* the engine polled the abort callback and gave up
EngineAbort(w) ==
    /\ loc[w].pc \in {"whisper_full", "context_callback", "decode"}
    /\ stream_abort_callback
    /\ loc' = [loc EXCEPT ![w].pc = "full_done", ![w].ret = -6, ![w].prog = -1]
    /\ UNCHANGED <<env, jni, host, ctl, cctx, tctx, wctx, hist>>

\* chunk 0: no context callback, the engine detects the language
EngineDetect(w) ==
    /\ loc[w].pc = "whisper_full"
    /\ wctx' = [wctx EXCEPT ![w].prompt = << >>, ![w].lang_id = env.lang]
    /\ loc' = [loc EXCEPT ![w].pc = "decode"]
    /\ UNCHANGED <<env, jni, host, ctl, cctx, tctx, hist>>

copy_tokens(t, max_tokens) ==
    LET n == MIN(Len(t.tokens), max_tokens)
        override == jni_language_callback
        changed == override # NoLang /\ override # t.lang_id
    IN  [tokens |-> IF changed THEN << >> ELSE SubSeq(t.tokens, 1, n),
         lang_id |-> IF changed THEN override ELSE t.lang_id]

\* stream_context_callback, called by the engine as the call for a chunk
\* other than the first begins
StreamContextCallback(w) ==
    LET got == copy_tokens(tctx[w], cctx.max_ctx_tokens)
        seen == [chunk |-> loc[w].chunk_idx, worker |-> w,
                 tokens |-> got.tokens, lang_id |-> got.lang_id,
                 override |-> jni_language_callback, aborted |-> FALSE]
        cut == [chunk |-> loc[w].chunk_idx, worker |-> w,
                tokens |-> << >>, lang_id |-> NoLang,
                override |-> NoLang, aborted |-> TRUE]
        taken == /\ wctx' = [wctx EXCEPT ![w].prompt = got.tokens,
                                         ![w].lang_id =
                                            IF got.lang_id # NoLang THEN got.lang_id
                                            ELSE env.lang]
                 /\ loc' = [loc EXCEPT ![w].pc = "decode"]
                 /\ hist' = [hist EXCEPT !.ctxcb = @ \cup {seen}]
    IN  /\ loc[w].pc = "context_callback"
        /\ IF cctx.single_thread
           THEN taken /\ UNCHANGED tctx
           ELSE IF context_blocked(cctx, tctx[w])
           THEN /\ loc' = [loc EXCEPT ![w].pc = "ctx_wait"]
                /\ UNCHANGED <<tctx, wctx, hist>>
           ELSE /\ tctx' = [tctx EXCEPT ![w].context_ready = FALSE]
                /\ IF cctx.abort
                   THEN /\ wctx' = [wctx EXCEPT ![w].prompt = << >>]
                        /\ loc' = [loc EXCEPT ![w].pc = "decode"]
                        /\ hist' = [hist EXCEPT !.ctxcb = @ \cup {cut}]
                   ELSE taken
        /\ UNCHANGED <<env, jni, host, ctl, cctx>>

clip_segment_no_last_t1(t, raw) ==
    LET t0a == raw.t0 + t.time_offset
        t1a == raw.t1 + t.time_offset
        t0b == IF t0a < t.output_start THEN t.output_start ELSE t0a
        chunk_end == t.time_offset + CDiv(t.chunk_samples * 100, WHISPER_SAMPLE_RATE)
        t1b == IF t1a > chunk_end THEN chunk_end ELSE t1a
    IN  [emit |-> ~(t0b >= t1b), t0 |-> t0b, t1 |-> t1b]

clip_segment_no_output_start(t, raw) ==
    LET t0a == raw.t0 + t.time_offset
        t1a == raw.t1 + t.time_offset
        chunk_end == t.time_offset + CDiv(t.chunk_samples * 100, WHISPER_SAMPLE_RATE)
        t1b == IF t1a > chunk_end THEN chunk_end ELSE t1a
        t0c == IF t0a < t.last_t1 THEN t.last_t1 ELSE t0a
    IN  [emit |-> ~(t0c >= t1b), t0 |-> t0c, t1 |-> t1b]

\* the clipping of stream_segment_callback for one raw segment
clip_segment(t, raw) ==
    LET t0a == raw.t0 + t.time_offset
        t1a == raw.t1 + t.time_offset
        t0b == IF t0a < t.output_start THEN t.output_start ELSE t0a
        chunk_end == t.time_offset + CDiv(t.chunk_samples * 100, WHISPER_SAMPLE_RATE)
        t1b == IF t1a > chunk_end THEN chunk_end ELSE t1a
        t0c == IF t0b < t.last_t1 THEN t.last_t1 ELSE t0b
    IN  [emit |-> ~(t0c >= t1b), t0 |-> t0c, t1 |-> t1b]

\* the text the engine stub gives a segment: decided by the audio of the call,
\* by the context it was given and by the segment's index
segment_text(w) ==
    [first |-> tctx[w].buffer[1], n_samples |-> Len(tctx[w].buffer),
     prompt |-> wctx[w].prompt, seg |-> loc[w].seg_i]

\* the engine reports one new segment: stream_segment_callback with n_new = 1
StreamSegmentCallback(w) ==
    LET raw == env.stub[loc[w].seg_i + 1]
        seg == clip_segment(tctx[w], raw)
    IN  /\ loc[w].pc = "decode"
        /\ loc[w].seg_i < Len(env.stub)
        /\ loc' = [loc EXCEPT ![w].seg_i = @ + 1]
        /\ IF seg.emit
           THEN /\ hist' = [hist EXCEPT !.events = Append(@,
                              jni_segment_callback(w, seg.t0, seg.t1, segment_text(w)))]
                /\ tctx' = [tctx EXCEPT ![w].last_t1 = seg.t1]
           ELSE UNCHANGED <<hist, tctx>>
        /\ UNCHANGED <<env, jni, host, ctl, cctx, wctx>>

\* jni_progress_callback: the events it delivers to onProgress, none while the
\* duration is not set
jni_progress_callback(chunk_progress, samples_before, chunk_samples) ==
    LET total == jni.duration_samples
        samples_done == samples_before + CDiv(chunk_progress * chunk_samples, 100)
        overall == CDiv(samples_done * 100, total)
    IN  IF total <= 0 THEN << >>
        ELSE << [type |-> "progress",
                 percent |-> IF overall > 100 THEN 100 ELSE overall,
                 duration |-> total,
                 after_stop |-> whisper_abort_callback_impl] >>

\* stream_progress_callback: only the worker progress_reporter names reports
stream_progress_callback(w, progress) ==
    IF cctx.progress_reporter # w THEN << >>
    ELSE jni_progress_callback(progress, tctx[w].samples_before_chunk,
                               tctx[w].chunk_samples)

\* the engine reports the progress of the call, a percentage that grows
EngineProgress(w) ==
    /\ loc[w].pc = "decode"
    /\ \E p \in ProgressChoices :
          /\ p > loc[w].prog
          /\ loc' = [loc EXCEPT ![w].prog = p]
          /\ hist' = [hist EXCEPT !.events = @ \o stream_progress_callback(w, p)]
    /\ UNCHANGED <<env, jni, host, ctl, cctx, tctx, wctx>>

\* whisper_full_get_prompt_past: the last max_tokens tokens of the call
whisper_full_get_prompt_past(wc, max_tokens) ==
    LET n == MIN(Len(wc.prompt_past), max_tokens)
    IN  SubSeq(wc.prompt_past, Len(wc.prompt_past) - n + 1, Len(wc.prompt_past))

\* whisper_full returns 0: the tokens of the call follow its prompt
EngineReturn(w) ==
    /\ loc[w].pc = "decode"
    /\ loc[w].seg_i = Len(env.stub)
    /\ wctx' = [wctx EXCEPT ![w].prompt_past =
                   wctx[w].prompt \o << tctx[w].buffer[1] >>]
    /\ loc' = [loc EXCEPT ![w].pc = "full_done", ![w].ret = 0, ![w].prog = -1]
    /\ UNCHANGED <<env, jni, host, ctl, cctx, tctx, hist>>

\* whisper_full fails and returns nonzero
EngineFail(w) ==
    /\ "engine" \in env.faults
    /\ loc[w].pc \in {"whisper_full", "context_callback", "decode"}
    /\ loc' = [loc EXCEPT ![w].pc = "full_done", ![w].ret = -7, ![w].prog = -1]
    /\ hist' = [hist EXCEPT !.faults = @ \cup {"engine"}]
    /\ UNCHANGED <<env, jni, host, ctl, cctx, tctx, wctx>>

\* after whisper_full: the call failed or the host asked to stop
AbortChunk(w) ==
    /\ loc[w].pc = "full_done"
    /\ loc[w].ret # 0 \/ whisper_abort_callback_impl
    /\ set_eof(w, TRUE)
    /\ UNCHANGED <<env, jni, host, ctl, tctx, wctx, hist>>

pass_context_no_lang(ts, cc, w) ==
    LET dst == IF cc.single_thread THEN w ELSE 1 - w
    IN  [ts EXCEPT ![dst].tokens = whisper_full_get_prompt_past(wctx[w], cc.max_ctx_tokens),
                   ![dst].context_ready = TRUE]

\* the thread contexts after pass_context by worker w
pass_context(ts, cc, w) ==
    LET dst == IF cc.single_thread THEN w ELSE 1 - w
    IN  [ts EXCEPT ![dst].tokens = whisper_full_get_prompt_past(wctx[w], cc.max_ctx_tokens),
                   ![dst].lang_id = wctx[w].lang_id,
                   ![dst].context_ready = TRUE]

PassContext_keeps_reporter(w) ==
    LET dst == IF cctx.single_thread THEN w ELSE 1 - w
    IN  /\ loc[w].pc = "full_done"
        /\ ~(loc[w].ret # 0 \/ whisper_abort_callback_impl)
        /\ cctx' = cctx
        /\ tctx' = pass_context(tctx, cctx, w)
        /\ loc' = LET l == [loc EXCEPT ![w] = Returns(@, 0)]
                  IN  IF cctx.single_thread THEN l ELSE pthread_cond_signal(l, w)
        /\ hist' = [hist EXCEPT !.passed = @ \cup
                      {[chunk |-> loc[w].chunk_idx, worker |-> w, to |-> dst,
                        tokens |-> whisper_full_get_prompt_past(wctx[w], cctx.max_ctx_tokens),
                        lang_id |-> wctx[w].lang_id]}]
        /\ UNCHANGED <<env, jni, host, ctl, wctx>>

\* after whisper_full: success, the context goes to the worker of the next chunk
PassContext(w) ==
    LET dst == IF cctx.single_thread THEN w ELSE 1 - w
    IN  /\ loc[w].pc = "full_done"
        /\ ~(loc[w].ret # 0 \/ whisper_abort_callback_impl)
        /\ cctx' = [cctx EXCEPT !.progress_reporter = dst]
        /\ tctx' = pass_context(tctx, cctx, w)
        /\ loc' = LET l == [loc EXCEPT ![w] = Returns(@, 0)]
                  IN  IF cctx.single_thread THEN l ELSE pthread_cond_signal(l, w)
        /\ hist' = [hist EXCEPT !.passed = @ \cup
                      {[chunk |-> loc[w].chunk_idx, worker |-> w, to |-> dst,
                        tokens |-> whisper_full_get_prompt_past(wctx[w], cctx.max_ctx_tokens),
                        lang_id |-> wctx[w].lang_id]}]
        /\ UNCHANGED <<env, jni, host, ctl, wctx>>

----------------------------------------------------------------------------
(* Specification *)

WorkerNext(w) ==
    \/ WaitForTurn(w)
    \/ FillReadBuffer(w)
    \/ CutChunk(w)
    \/ HandoffToNext(w)
    \/ EngineAbort(w)
    \/ EngineDetect(w)
    \/ StreamContextCallback(w)
    \/ StreamSegmentCallback(w)
    \/ EngineReturn(w)
    \/ AbortChunk(w)
    \/ PassContext(w)

StreamNext ==
    \/ ProcessStartCommand
    \/ \E w \in Workers : WorkerNext(w)
    \/ StreamFullReturn
    \/ ReportStreamComplete

HostNext ==
    \/ nativeStop
    \/ nativeUpdateLanguage

Next == StreamNext \/ HostNext

Spec == Init /\ [][Next]_vars


\* the new_segment events delivered so far, in order
Segments == SelectSeq(hist.events, LAMBDA e : e.type = "new_segment")

\* what the segment callback was given for one segment
Delivered(e) == [text |-> e.text, t0 |-> e.t0, t1 |-> e.t1]

DeliveredSegments ==
    [k \in 1..Len(Segments) |-> Delivered(Segments[k])]

\* the same audio is run again, this time with the second slot loaded
SecondRun ==
    /\ ctl.pc = "idle"
    /\ hist.run = 1
    /\ env' = [env EXCEPT !.dual = TRUE]
    /\ jni' = [jni EXCEPT !.slots[1].ctx = TRUE]
    /\ host' = [host EXCEPT !.pos = 0]
    /\ ctl' = [ctl EXCEPT !.pc = "queued", !.args_session_id = jni.session_id]
    /\ wctx' = [w \in Workers |-> InitWctx]
    /\ hist' = [InitHist EXCEPT !.run = 2, !.first_run = DeliveredSegments]
    /\ UNCHANGED <<cctx, tctx, loc>>

InitEquiv == \E e \in EnvChoices : ~e.dual /\ InitFor(e)

\* two runs to their end, neither stopped
NextEquiv ==
    \/ ProcessStartCommand
    \/ \E w \in Workers :
          \/ WaitForTurn(w)
          \/ FillReadBuffer(w)
          \/ CutChunk(w)
          \/ HandoffToNext(w)
          \/ EngineDetect(w)
          \/ StreamContextCallback(w)
          \/ StreamSegmentCallback(w)
          \/ EngineReturn(w)
          \/ PassContext(w)
    \/ StreamFullReturn
    \/ ReportStreamComplete
    \/ SecondRun

SpecEquiv == InitEquiv /\ [][NextEquiv]_vars

\* a small set of runs for the progress properties
LiveEnvChoices ==
    { e \in EnvChoices :
         /\ e.sparams.min_chunk_ms = 10
         /\ e.sparams.overlap_ms = 3
         /\ e.audio_len \in {20, 41}
         /\ ~e.vad
         /\ e.stub = << [t0 |-> 0, t1 |-> 1] >> }

InitLive == \E e \in LiveEnvChoices : InitFor(e)

\* the controller and the workers are threads that the scheduler keeps running
FairSpec ==
    /\ InitLive
    /\ [][Next]_vars
    /\ WF_vars(ProcessStartCommand)
    /\ WF_vars(StreamFullReturn)
    /\ WF_vars(ReportStreamComplete)
    /\ \A w \in Workers : WF_vars(WorkerNext(w))

\* runs in which the host announces the duration and the engine reports
\* its progress
NextProgress ==
    \/ StreamNext
    \/ nativeStop
    \/ nativeSetDuration
    \/ \E w \in Workers : EngineProgress(w)

InitProgress == \E e \in LiveEnvChoices : e.audio_len = 20 /\ InitFor(e)

SpecProgress == InitProgress /\ [][NextProgress]_vars

\* 25 s of audio with speech at 0-8 s and 11-20 s, chunks of 10 to 20 s with
\* 300 ms of overlap, VAD loaded
LongAudioEnv(dual) ==
    [sparams |-> [min_chunk_ms |-> 10000, chunk_extend_ms |-> 10000,
                  overlap_ms |-> 300, min_silence_ms |-> 300],
     audio_len |-> 25 * WHISPER_SAMPLE_RATE,
     speech |-> << [a |-> 0, b |-> 8 * WHISPER_SAMPLE_RATE],
                   [a |-> 11 * WHISPER_SAMPLE_RATE, b |-> 20 * WHISPER_SAMPLE_RATE] >>,
     stub |-> << [t0 |-> 0, t1 |-> 1] >>,
     lang |-> 1,
     vad |-> TRUE,
     dual |-> dual,
     faults |-> {}]

InitLongAudio == \E dual \in BOOLEAN : InitFor(LongAudioEnv(dual))

\* the run to its end, not stopped
NextLongAudio ==
    \/ ProcessStartCommand
    \/ \E w \in Workers :
          \/ WaitForTurn(w)
          \/ FillReadBuffer(w)
          \/ CutChunk(w)
          \/ HandoffToNext(w)
          \/ EngineDetect(w)
          \/ StreamContextCallback(w)
          \/ StreamSegmentCallback(w)
          \/ EngineReturn(w)
          \/ PassContext(w)
    \/ StreamFullReturn
    \/ ReportStreamComplete

SpecLongAudio == InitLongAudio /\ [][NextLongAudio]_vars

\* runs that the host stops while a worker is chunking
NextStop ==
    \/ StreamNext
    \/ StopInChunking

SpecStop == Init /\ [][NextStop]_vars

\* runs in which the producer, the engine or an allocation may fail
FaultEnvChoices ==
    { [e EXCEPT !.faults = {f}] : e \in LiveEnvChoices, f \in {"read", "engine", "alloc"} }

InitFaults == \E e \in FaultEnvChoices : InitFor(e)

NextFaults ==
    \/ StreamNext
    \/ nativeStop
    \/ \E w \in Workers : EngineFail(w)

SpecFaults == InitFaults /\ [][NextFaults]_vars

\* the state after nativeCreate: nothing loaded, nothing queued
CtlEnv ==
    CHOOSE e \in LiveEnvChoices : e.audio_len = 20 /\ ~e.dual

InitCtl ==
    /\ env = CtlEnv
    /\ jni = [session_id |-> 0,
              start_session_id |-> 0,
              lang_override |-> NoLang,
              duration_samples |-> 0,
              queue |-> << >>,
              should_shutdown |-> FALSE,
              slots |-> [w \in Workers |-> [ctx |-> FALSE, vad_ctx |-> FALSE]]]
    /\ host = [pos |-> 0, stops |-> 0, lang_updates |-> 0, duration_updates |-> 0,
               enqueued |-> 0, destroy |-> "none"]
    /\ ctl = [pc |-> "idle", args_session_id |-> 0, result |-> 0,
              was_stopped |-> FALSE]
    /\ cctx = init_common_ctx(CtlEnv.sparams, TRUE)
    /\ tctx = [w \in Workers |-> init_thread_ctx([ctx |-> FALSE, vad_ctx |-> FALSE], w)]
    /\ loc = [w \in Workers |-> InitLoc("none")]
    /\ wctx = [w \in Workers |-> InitWctx]
    /\ hist = InitHist

\* the controller thread takes commands while the host enqueues them
ControllerNext ==
    \/ LoadModel
    \/ DequeueStart
    \/ StreamNext

NextCtl ==
    \/ ControllerNext
    \/ nativeLoadModel
    \/ nativeLoadSecondModel
    \/ nativeStart
    \/ nativeStop

SpecCtl == InitCtl /\ [][NextCtl]_vars

\* the controller and the workers are threads that the scheduler keeps running
FairSpecCtl ==
    /\ InitCtl
    /\ [][NextCtl]_vars
    /\ WF_vars(LoadModel)
    /\ WF_vars(DequeueStart)
    /\ WF_vars(ProcessStartCommand)
    /\ WF_vars(StreamFullReturn)
    /\ WF_vars(ReportStreamComplete)
    /\ \A w \in Workers : WF_vars(WorkerNext(w))

\* the host has called setDuration before it queues commands, so that the
\* progress callback reports
InitStale ==
    /\ env = CtlEnv
    /\ jni = [session_id |-> 0,
              start_session_id |-> 0,
              lang_override |-> NoLang,
              duration_samples |-> (20 * WHISPER_SAMPLE_RATE) \div 1000,
              queue |-> << >>,
              should_shutdown |-> FALSE,
              slots |-> [w \in Workers |-> [ctx |-> FALSE, vad_ctx |-> FALSE]]]
    /\ host = [pos |-> 0, stops |-> 0, lang_updates |-> 0, duration_updates |-> 0,
               enqueued |-> 0, destroy |-> "none"]
    /\ ctl = [pc |-> "idle", args_session_id |-> 0, result |-> 0,
              was_stopped |-> FALSE]
    /\ cctx = init_common_ctx(CtlEnv.sparams, TRUE)
    /\ tctx = [w \in Workers |-> init_thread_ctx([ctx |-> FALSE, vad_ctx |-> FALSE], w)]
    /\ loc = [w \in Workers |-> InitLoc("none")]
    /\ wctx = [w \in Workers |-> InitWctx]
    /\ hist = InitHist

NextStale ==
    \/ NextCtl
    \/ \E w \in Workers : EngineProgress(w)

SpecStale == InitStale /\ [][NextStale]_vars

----------------------------------------------------------------------------
(* An engine that does not call the context callback in every call *)

\* whisper_full decodes the chunk without calling params.context_callback: no
\* prompt is taken and the language is detected
EngineSkipContext(w) ==
    /\ loc[w].pc = "context_callback"
    /\ wctx' = [wctx EXCEPT ![w].prompt = << >>, ![w].lang_id = env.lang]
    /\ loc' = [loc EXCEPT ![w].pc = "decode"]
    /\ UNCHANGED <<env, jni, host, ctl, cctx, tctx, hist>>

InitSkip == \E e \in LiveEnvChoices : e.audio_len = 41 /\ e.dual /\ InitFor(e)

NextSkip ==
    \/ StreamNext
    \/ nativeStop
    \/ \E w \in Workers : EngineSkipContext(w)

SpecSkip == InitSkip /\ [][NextSkip]_vars

----------------------------------------------------------------------------
(* Language updates around the start of a stream *)

\* a start command is queued on loaded slots; the host may have called
\* nativeUpdateLanguage before it called nativeStart
InitLang ==
    \E e \in LiveEnvChoices, l \in LangChoices \cup {NoLang} :
       /\ env = e
       /\ jni = [session_id |-> 0,
                 start_session_id |-> 0,
                 lang_override |-> l,
                 duration_samples |-> 0,
                 queue |-> enqueue_command_node(<< >>,
                              [type |-> "CMD_START", model_path |-> FALSE,
                               vad_model_path |-> FALSE, session_id |-> 0,
                               seq |-> 1]),
                 should_shutdown |-> FALSE,
                 slots |-> [w \in Workers |->
                              [ctx |-> (w = 0 \/ e.dual), vad_ctx |-> e.vad]]]
       /\ host = [pos |-> 0, stops |-> 0, lang_updates |-> 0, duration_updates |-> 0,
                  enqueued |-> 1, destroy |-> "none"]
       /\ ctl = [pc |-> "idle", args_session_id |-> 0, result |-> 0,
                 was_stopped |-> FALSE]
       /\ cctx = init_common_ctx(e.sparams, ~e.dual)
       /\ tctx = [w \in Workers |-> init_thread_ctx([ctx |-> FALSE, vad_ctx |-> FALSE], w)]
       /\ loc = [w \in Workers |-> InitLoc("none")]
       /\ wctx = [w \in Workers |-> InitWctx]
       /\ hist = InitHist

NextLang ==
    \/ DequeueStart
    \/ Next

SpecLang == InitLang /\ [][NextLang]_vars

----------------------------------------------------------------------------
(* Runs of several chunks whose engine calls report progress *)

\* the host has called setDuration(41) and start() on 41 ms of audio
InitReporter ==
    \E e \in LiveEnvChoices :
       /\ e.audio_len = 41
       /\ env = e
       /\ jni = [session_id |-> 0,
                 start_session_id |-> 0,
                 lang_override |-> NoLang,
                 duration_samples |-> (41 * WHISPER_SAMPLE_RATE) \div 1000,
                 queue |-> << >>,
                 should_shutdown |-> FALSE,
                 slots |-> [w \in Workers |->
                              [ctx |-> (w = 0 \/ e.dual), vad_ctx |-> e.vad]]]
       /\ host = [pos |-> 0, stops |-> 0, lang_updates |-> 0, duration_updates |-> 0,
                  enqueued |-> 0, destroy |-> "none"]
       /\ ctl = [pc |-> "queued", args_session_id |-> 0, result |-> 0,
                 was_stopped |-> FALSE]
       /\ cctx = init_common_ctx(e.sparams, ~e.dual)
       /\ tctx = [w \in Workers |-> init_thread_ctx([ctx |-> FALSE, vad_ctx |-> FALSE], w)]
       /\ loc = [w \in Workers |-> InitLoc("none")]
       /\ wctx = [w \in Workers |-> InitWctx]
       /\ hist = InitHist

NextReporter ==
    \/ StreamNext
    \/ nativeStop
    \/ \E w \in Workers : EngineProgress(w)

SpecReporter == InitReporter /\ [][NextReporter]_vars

\* the thread that runs worker w: whisper_stream_full runs process_one_chunk
\* of worker 0 itself, on the thread of its caller, and creates a thread for
\* worker 1
thread_of(w) == IF w = 0 THEN "controller" ELSE "worker_thread"

----------------------------------------------------------------------------
(* Observations *)

\* overlap_samples in centiseconds, as process_one_chunk converts it
OverlapCs == CDiv(cctx.overlap_samples * 100, WHISPER_SAMPLE_RATE)

\* the descriptor of chunk i, once it has been handed off
ChunkOf(i) == hist.chunks[i + 1]

InChunking(w) == loc[w].pc \in {"fill", "handoff"}
InEngine(w) == loc[w].pc \in {"whisper_full", "context_callback", "ctx_wait", "decode"}
Blocked(w) == loc[w].pc \in {"turn_wait", "ctx_wait"}
Dual == ctl.pc # "queued" /\ ~cctx.single_thread

----------------------------------------------------------------------------
(* destroy() while a stream runs *)

\* worker_thread_func leaves its loop when it finds should_shutdown set
WorkerThreadExit ==
    /\ ctl.pc = "idle"
    /\ jni.should_shutdown
    /\ ctl' = [ctl EXCEPT !.pc = "finished"]
    /\ UNCHANGED <<env, jni, host, cctx, tctx, loc, wctx, hist>>

\* nativeDestroy up to pthread_join: the session counter is incremented and
\* should_shutdown is set under the mutex
nativeDestroy ==
    /\ host.destroy = "none"
    /\ jni' = [jni EXCEPT !.session_id = @ + 1, !.should_shutdown = TRUE]
    /\ host' = [host EXCEPT !.destroy = "joining"]
    /\ hist' = [hist EXCEPT !.destroy_in_engine =
                  IF ctl.pc = "stream" THEN {w \in Workers : InEngine(w)} ELSE {}]
    /\ UNCHANGED <<env, ctl, cctx, tctx, loc, wctx>>

nativeDestroyJoined_no_join ==
    /\ host.destroy = "joining"
    /\ jni' = [jni EXCEPT !.queue = << >>,
                          !.slots = [w \in Workers |-> [ctx |-> FALSE, vad_ctx |-> FALSE]]]
    /\ host' = [host EXCEPT !.destroy = "released"]
    /\ UNCHANGED <<env, ctl, cctx, tctx, loc, wctx, hist>>

\* nativeDestroy after pthread_join has returned: clear_command_queue, then
\* both slots and the context are freed
nativeDestroyJoined ==
    /\ host.destroy = "joining"
    /\ ctl.pc = "finished"
    /\ jni' = [jni EXCEPT !.queue = << >>,
                          !.slots = [w \in Workers |-> [ctx |-> FALSE, vad_ctx |-> FALSE]]]
    /\ host' = [host EXCEPT !.destroy = "released"]
    /\ UNCHANGED <<env, ctl, cctx, tctx, loc, wctx, hist>>

NextDestroy ==
    \/ StreamNext
    \/ WorkerThreadExit
    \/ nativeDestroy
    \/ nativeDestroyJoined

SpecDestroy == InitLive /\ [][NextDestroy]_vars

\* the controller, the workers and the thread that called destroy() keep running
FairSpecDestroy ==
    /\ InitLive
    /\ [][NextDestroy]_vars
    /\ WF_vars(ProcessStartCommand)
    /\ WF_vars(StreamFullReturn)
    /\ WF_vars(ReportStreamComplete)
    /\ WF_vars(WorkerThreadExit)
    /\ WF_vars(nativeDestroyJoined)
    /\ \A w \in Workers : WF_vars(WorkerNext(w))

----------------------------------------------------------------------------
(* Claims *)

\* C1: segments are delivered with t0 < t1, and from one delivered segment
\* to the next neither t0 nor t1 decreases, in single- and dual-worker runs.
C1_MonotoneSegments ==
    LET s == Segments
    IN  /\ \A k \in 1..Len(s) : s[k].t0 < s[k].t1
        /\ \A k \in 1..(Len(s) - 1) :
              s[k].t0 <= s[k + 1].t0 /\ s[k].t1 <= s[k + 1].t1

\* two consecutive segments of different workers, the later one moved
\* forward by the clipping
C1_Witness ==
    LET s == Segments
    IN  \E k \in 1..(Len(s) - 1) :
           /\ s[k].worker # s[k + 1].worker
           /\ s[k + 1].t0 > s[k + 1].raw.t0 + ChunkOf(s[k + 1].chunk).time_offset

\* C2: no new_segment and no stream_complete event is delivered once stop()
\* has incremented the session counter.
C2_NoEventAfterStop ==
    \A k \in 1..Len(hist.events) : ~hist.events[k].after_stop

\* C3: once stop() has been called during a stream run, the run returns and
\* a worker that is blocked in a wait leaves it.
C3_CancellationTerminates ==
    /\ (whisper_abort_callback_impl /\ ctl.pc = "stream") ~> (ctl.pc # "stream")
    /\ \A w \in Workers :
          (whisper_abort_callback_impl /\ Blocked(w)) ~> ~Blocked(w)

\* a run that was stopped while a worker was blocked in a wait, and returned
C3_Witness ==
    /\ ctl.pc = "idle"
    /\ ctl.was_stopped
    /\ hist.stop_blocked # {}

\* C4: a dual-worker run delivers the sequence of segments (text, t0, t1)
\* that the single-worker run of the same audio and configuration delivered.
C4_SingleDualIdentical ==
    (hist.run = 2 /\ ctl.pc = "idle") => DeliveredSegments = hist.first_run

\* C5 as stated: in dual mode every return of the context callback for chunk
\* i + 1 in a run that was not aborted gives the tokens and the language that
\* the completion of chunk i handed off.
C5_ContextIsHandoff ==
    Dual =>
       \A r \in hist.ctxcb :
          ~r.aborted =>
             \E p \in hist.passed :
                /\ p.chunk = r.chunk - 1
                /\ p.to = r.worker
                /\ r.tokens = p.tokens
                /\ r.lang_id = p.lang_id

\* C5, amended: in dual mode a return of the context callback for chunk i + 1
\* gives no tokens when the run was aborted; otherwise it comes after the
\* hand-off of chunk i and gives that hand-off's tokens and language, except
\* that a language override different from the handed-off language gives no
\* tokens and the override.
C5_ContextFromHandoff ==
    Dual =>
       \A r \in hist.ctxcb :
          IF r.aborted THEN r.tokens = << >>
          ELSE \E p \in hist.passed :
                  /\ p.chunk = r.chunk - 1
                  /\ p.to = r.worker
                  /\ IF r.override # NoLang /\ r.override # p.lang_id
                     THEN r.tokens = << >> /\ r.lang_id = r.override
                     ELSE r.tokens = p.tokens /\ r.lang_id = p.lang_id

\* worker 0 received, for chunk 2, the tokens that worker 1 handed off
C5_Witness ==
    /\ Dual
    /\ \E r \in hist.ctxcb :
          /\ ~r.aborted
          /\ r.chunk = 2
          /\ r.worker = 0
          /\ r.tokens # << >>

\* C6: chunk indices are begun as 0, 1, 2, ..., each once, in dual mode by
\* the worker of that parity, and chunk i + 1 only after chunk i was cut.
C6_ChunkOrder ==
    /\ \A k \in 1..Len(hist.begun) :
          /\ hist.begun[k].idx = k - 1
          /\ Dual => hist.begun[k].worker = hist.begun[k].idx % 2
    /\ Len(hist.begun) <= Len(hist.chunks) + 1

\* a dual run in which both workers took chunks
C6_Witness == Dual /\ Len(hist.begun) >= 3

\* C7: at most one worker is in the chunking section at a time.
C7_ChunkingExclusive == ~(InChunking(0) /\ InChunking(1))

\* both workers are inside their engine call at once: worker 0 decodes
\* chunk 0 while the engine of worker 1 has started on chunk 1
C7_Witness ==
    /\ Dual
    /\ loc[0].pc = "decode"
    /\ loc[1].pc = "context_callback"

\* C8: every chunk that is followed by another one has
\* min_chunk_samples <= chunk_samples <= max_chunk_samples.
C8_ChunkSizing ==
    \A k \in 1..(Len(hist.chunks) - 1) :
       /\ cctx.min_chunk_samples <= hist.chunks[k].chunk_samples
       /\ hist.chunks[k].chunk_samples <= cctx.max_chunk_samples

\* C9: a segment delivered for a chunk i > 0 has
\* t0 >= time_offset(i) + overlap, in centiseconds.
C9_NoOverlapEmission ==
    LET s == Segments
    IN  \A k \in 1..Len(s) :
           s[k].chunk > 0 =>
              s[k].t0 >= ChunkOf(s[k].chunk).time_offset + OverlapCs

\* a delivered segment of a later chunk that the engine reported as starting
\* inside the overlap
C9_Witness ==
    LET s == Segments
    IN  \E k \in 1..Len(s) :
           /\ s[k].chunk > 0
           /\ OverlapCs > 0
           /\ s[k].raw.t0 < OverlapCs

\* C10: the first overlap_samples samples given to the engine for chunk i > 0
\* are the last overlap_samples samples given to it for chunk i - 1.
C10_OverlapPreserved ==
    \A k \in 2..Len(hist.chunks) :
       LET ov == cctx.overlap_samples
           prev == hist.chunks[k - 1].buffer
           cur == hist.chunks[k].buffer
       IN  /\ Len(prev) >= ov
           /\ Len(cur) >= ov
           /\ SubSeq(cur, 1, ov) = SubSeq(prev, Len(prev) - ov + 1, Len(prev))


\* C11: while no language override was ever set, the context callback of every
\* chunk after the first returns the language detected on chunk 0; a callback
\* that finds an override different from the inherited language returns no
\* tokens and the override.
C11_LanguagePropagation ==
    \A r \in hist.ctxcb :
       ~r.aborted =>
          /\ host.lang_updates = 0 => r.lang_id = env.lang
          /\ \A p \in hist.passed :
                (p.chunk = r.chunk - 1 /\ r.override # NoLang /\ r.override # p.lang_id)
                   => (r.tokens = << >> /\ r.lang_id = r.override)

\* a context callback found an override different from the detected language
\* that was handed off with tokens, and a later chunk inherited the override
C11_Witness ==
    \E r \in hist.ctxcb, p \in hist.passed, q \in hist.passed :
       /\ ~r.aborted
       /\ p.chunk = r.chunk - 1
       /\ p.lang_id = env.lang
       /\ p.tokens # << >>
       /\ r.override # NoLang
       /\ r.override # p.lang_id
       /\ r.tokens = << >>
       /\ q.chunk = r.chunk
       /\ q.lang_id = r.override

\* the progress events delivered so far, in order
Progress == SelectSeq(hist.events, LAMBDA e : e.type = "progress")

\* C12: every progress event has a percentage in 0..100 and is delivered while
\* the duration is set, and the percentages of one run never decrease, whatever
\* the host calls in between.
C12_ProgressMonotone ==
    \A i \in 1..Len(Progress) :
       /\ Progress[i].percent \in 0..100
       /\ Progress[i].duration > 0
       /\ \A j \in 1..(i - 1) : Progress[j].percent <= Progress[i].percent

\* the stream_complete events delivered so far
Completes == SelectSeq(hist.events, LAMBDA e : e.type = "stream_complete")

\* process_start_command has run a stream and returned
RunReturned == ctl.pc = "idle" /\ loc[0].pc = "exited"

\* C13: a run reports stream_complete at most once and after every segment; a
\* run that has returned reported it exactly once if the session counter read
\* at its return equalled the value captured at start, and not at all if the
\* session had changed.
C13_StreamCompleteOnce ==
    /\ Len(Completes) <= 1
    /\ Len(Completes) = 1 =>
          /\ RunReturned
          /\ hist.events[Len(hist.events)].type = "stream_complete"
    /\ RunReturned => (Len(Completes) = 1 <=> ~ctl.was_stopped)

C13_Witness ==
    /\ RunReturned
    /\ ~ctl.was_stopped
    /\ Len(Segments) >= 2
    /\ Len(Completes) = 1

\* C14: once the producer has returned a negative value the run ends with the
\* abort flag set, and if the session is unchanged at its return the host
\* receives stream_complete(false).
C14_ProducerErrorAborts ==
    ("read" \in hist.faults /\ ctl.pc = "idle") =>
       /\ cctx.abort
       /\ ~ctl.was_stopped =>
             (Len(Completes) = 1 /\ ~Completes[1].success)

\* C15: once an engine call has returned nonzero and the abort flag is set, no
\* worker gives a further chunk to the engine; the run that ends after such a
\* failure has the abort flag set and reports stream_complete(false) if the
\* session is unchanged at its return, and nothing otherwise.
C15_EngineErrorStopsRun ==
    /\ []( ("engine" \in hist.faults /\ ctl.pc = "idle") =>
             /\ cctx.abort
             /\ IF ctl.was_stopped THEN Completes = << >>
                ELSE Len(Completes) = 1 /\ ~Completes[1].success )
    /\ [][ ("engine" \in hist.faults /\ cctx.abort) => hist'.chunks = hist.chunks ]_vars

\* the error events delivered so far
Errors == SelectSeq(hist.events, LAMBDA e : e.type = "error")

\* C16: when an allocation fails while the start command sets up the stream,
\* the host receives an error event, no chunk is given to the engine and no
\* stream_complete is reported.
C16_AllocFailureIsError ==
    ("alloc" \in hist.faults /\ ctl.pc = "idle") =>
       /\ Errors # << >>
       /\ hist.chunks = << >>
       /\ Completes = << >>

\* C17: a load_model that fails at any of its steps delivers an error event and
\* no loaded event and leaves its slot without inference context and without
\* VAD context.
C17_FailedLoadUnloads ==
    \A l \in hist.loads :
       (l.model_path /\ l.outcome # "ok") =>
          /\ Len(l.events) = 1
          /\ l.events[1].type = "error"
          /\ ~l.slot_after.ctx
          /\ ~l.slot_after.vad_ctx

\* C18: a start command that finds slot 0 without a model delivers one error
\* event and returns without starting a worker, giving a chunk to the engine or
\* reporting stream_complete; and whatever errors loads and starts met, every
\* command the host enqueued is eventually taken by the controller thread.
C18_StartWithoutModel ==
    /\ [][ (ctl.pc = "queued" /\ ~jni.slots[0].ctx /\ ctl' # ctl) =>
             /\ ctl'.pc = "idle"
             /\ hist'.events = Append(hist.events, report_error("start", 0))
             /\ hist'.chunks = hist.chunks
             /\ loc' = loc ]_vars
    /\ \A n \in 1..MaxCommands :
          (host.enqueued >= n) ~> (Len(hist.executed) >= n)

C18_Witness ==
    \E i \in 1..Len(hist.events), j \in 1..Len(hist.events) :
       /\ i < j
       /\ hist.events[i].type = "error"
       /\ hist.events[i].step = "start"
       /\ hist.events[j].type = "new_segment"

\* the controller thread is inside a command
ControllerBusy == ctl.pc # "idle"

\* C19: commands are taken in the order they were enqueued; a command is taken
\* only when the previous one, a whole stream run included, has returned; the
\* workers of a stream run are active only inside the one start command being
\* executed; and no slot changes while a command other than a load runs.
C19_FifoOneAtATime ==
    /\ [](hist.executed = [k \in 1..Len(hist.executed) |-> k])
    /\ [](\A k \in 1..Len(jni.queue) : jni.queue[k].seq = Len(hist.executed) + k)
    /\ []((\E w \in Workers : loc[w].pc \notin {"none", "exited"}) => ctl.pc = "stream")
    /\ [][ Len(hist'.executed) > Len(hist.executed) => ~ControllerBusy ]_vars
    /\ [][ ControllerBusy => jni'.slots = jni.slots ]_vars

C19_Witness ==
    /\ ctl.pc = "stream"
    /\ \E w \in Workers : InEngine(w)
    /\ Len(hist.executed) = 2
    /\ Len(jni.queue) = 1
    /\ jni.queue[1].type = "CMD_LOAD_SECOND_MODEL"

\* C20: when stop() is called while a worker is between wait_for_turn and the
\* cut of its chunk, the chunk that worker was preparing is never given to the
\* engine.
C20_StopInChunkingSkipsEngine ==
    \A x \in hist.stop_chunking :
       \A k \in 1..Len(hist.chunks) : hist.chunks[k].idx # x.idx

\* C25: the abort flag, once set, stays set for the rest of the run, and a run
\* whose workers have returned gives 0 exactly when the abort flag is not set
\* and a negative value when it is, whichever worker set it.
C25_ReturnValue ==
    /\ []( (ctl.pc \in {"complete", "idle"} /\ loc[0].pc = "exited") =>
             /\ ctl.result = 0 <=> ~cctx.abort
             /\ ctl.result <= 0 )
    /\ [][ (ctl.pc = "stream" /\ cctx.abort) => cctx'.abort ]_vars

C25_Witness ==
    /\ ctl.pc = "idle"
    /\ ~cctx.single_thread
    /\ ~ctl.was_stopped
    /\ loc[1].ret = -7
    /\ loc[0].ret = -1
    /\ ctl.result = -1

\* the cut point by the rule of the boundary selector: the gaps are those
\* between consecutive VAD intervals and the one from the last interval to the
\* end of the search range, in centiseconds; the midpoint of the first gap that
\* is long enough and meets the search range, clamped into the search range
RuleBoundary(cc, available, segs, vad_offset) ==
    LET search_start == cc.min_chunk_samples
        search_end == MIN(cc.max_chunk_samples, available)
        off_cs == CDiv(vad_offset * 100, WHISPER_SAMPLE_RATE)
        start_cs == CDiv(search_start * 100, WHISPER_SAMPLE_RATE)
        end_cs == CDiv(search_end * 100, WHISPER_SAMPLE_RATE)
        n == Len(segs)
        g0(i) == segs[i].t1 + off_cs
        g1(i) == IF i < n THEN segs[i + 1].t0 + off_cs ELSE end_cs
        qualifies(i) == /\ (g1(i) - g0(i)) * 10 >= cc.min_silence_ms
                        /\ g0(i) < end_cs
                        /\ g1(i) > start_cs
        Q == {i \in 1..n : qualifies(i)}
        first == CHOOSE i \in Q : \A j \in Q : i <= j
        mid == CDiv(CDiv(g0(first) + g1(first), 2) * WHISPER_SAMPLE_RATE, 100)
    IN  IF search_start >= search_end THEN search_end
        ELSE IF n = 0 THEN search_start
        ELSE IF Q = {} THEN search_end
        ELSE IF mid < search_start THEN search_start
        ELSE IF mid > search_end THEN search_end
        ELSE mid

\* the worker has filled the ring buffer and is about to select the boundary
ReadyToCut(w) ==
    /\ loc[w].pc = "fill"
    /\ ~(Len(cctx.read_buffer) < cctx.max_chunk_samples + cctx.overlap_samples
            /\ ~loc[w].eof)
    /\ Len(cctx.read_buffer) > (IF loc[w].chunk_idx > 0 THEN cctx.overlap_samples ELSE 0)

\* C28: the boundary selected for a chunk is the one the rule gives, and lies
\* between 1 and the number of samples available.
C28_BoundarySelector ==
    \A w \in Workers :
       ReadyToCut(w) =>
          LET overlap_offset == IF loc[w].chunk_idx > 0 THEN cctx.overlap_samples ELSE 0
              available == Len(cctx.read_buffer) - overlap_offset
              vad == vad_for_chunk(w)
              b == find_chunk_boundary(cctx, available, vad.vad_segs, vad.vad_start).boundary
          IN  /\ b = RuleBoundary(cctx, available, vad.vad_segs, vad.vad_start)
              /\ b >= 1
              /\ b <= available

\* C23: when the context callback of chunk 1 finds an override different from
\* the language detected on chunk 0, it returns no tokens and the override, and
\* every segment of chunk 1 and of the chunks after it is delivered with the
\* override as its language.
C23_OverrideTagsSegments ==
    \A r \in hist.ctxcb :
       (r.chunk = 1 /\ ~r.aborted /\ r.override # NoLang /\ r.override # env.lang) =>
          /\ r.tokens = << >>
          /\ r.lang_id = r.override
          /\ \A k \in 1..Len(Segments) :
                Segments[k].chunk >= 1 => Segments[k].lang = r.override

\* C24 as stated: in the 25 s run the engine is called exactly twice, with
\* 9.5 s of samples and then with 15.8 s (15.5 s new and 0.3 s of overlap).
C24_CutAtGapMidpoint ==
    ctl.pc = "idle" =>
       /\ Len(hist.chunks) = 2
       /\ hist.chunks[1].actual_chunk_samples = CDiv(95 * WHISPER_SAMPLE_RATE, 10)
       /\ hist.chunks[2].actual_chunk_samples = CDiv(158 * WHISPER_SAMPLE_RATE, 10)

\* C24: in the 25 s run the midpoint of the gap, 9.5 s, lies before the
\* search range and is clamped to its start: the engine is called exactly
\* twice, with 10 s of samples and then with 15.3 s (15 s new and 0.3 s of
\* overlap).
C24_CutAtSearchStart ==
    /\ Len(hist.chunks) <= 2
    /\ Len(hist.chunks) >= 1 =>
          hist.chunks[1].actual_chunk_samples = 10 * WHISPER_SAMPLE_RATE
    /\ Len(hist.chunks) = 2 =>
          /\ hist.chunks[2].overlap_offset = CDiv(3 * WHISPER_SAMPLE_RATE, 10)
          /\ hist.chunks[2].actual_chunk_samples =
                15 * WHISPER_SAMPLE_RATE + CDiv(3 * WHISPER_SAMPLE_RATE, 10)
    /\ ctl.pc = "idle" => Len(hist.chunks) = 2

C24_Witness ==
    /\ ctl.pc = "idle"
    /\ Len(hist.chunks) = 2
    /\ hist.chunks[2].eof
    /\ Len(Segments) >= 1

\* C29: the ring buffer never holds more than max_chunk_samples +
\* overlap_samples samples, and the samples copied into a worker's buffer for a
\* chunk, chunk_samples + overlap_offset, are never more than the ring buffer
\* holds at the copy.
C29_BufferBounds ==
    /\ Len(cctx.read_buffer) <= cctx.max_chunk_samples + cctx.overlap_samples
    /\ cctx.buffer_size = cctx.max_chunk_samples + cctx.overlap_samples
    /\ \A w \in Workers :
          loc[w].pc = "handoff" =>
             /\ loc[w].ci.actual_chunk_samples =
                   loc[w].ci.chunk_samples + loc[w].ci.overlap_offset
             /\ loc[w].ci.actual_chunk_samples <= Len(cctx.read_buffer)
             /\ Len(tctx[w].buffer) = loc[w].ci.actual_chunk_samples
    /\ \A k \in 1..Len(hist.chunks) :
          hist.chunks[k].actual_chunk_samples <= hist.chunks[k].ring_len

C29_Witness ==
    \E w \in Workers :
       /\ loc[w].pc = "handoff"
       /\ loc[w].chunk_idx > 0
       /\ cctx.overlap_samples > 0
       /\ Len(cctx.read_buffer) = cctx.buffer_size
       /\ loc[w].ci.actual_chunk_samples < Len(cctx.read_buffer)

\* C30: the hand-off of a chunk of A samples from a ring buffer of n samples
\* leaves in the buffer the samples that were at indices max(0, A - overlap)
\* to n - 1, in order, and sets the stream's EOF exactly when the producer
\* reported EOF during the fill for this chunk and no more than overlap_samples
\* samples are retained.
C30_HandoffRetains ==
    [][ Len(hist'.chunks) = Len(hist.chunks) + 1 =>
          LET c == hist'.chunks[Len(hist'.chunks)]
              A == c.actual_chunk_samples
              n == Len(cctx.read_buffer)
              first == IF A - cctx.overlap_samples > 0 THEN A - cctx.overlap_samples ELSE 0
          IN  /\ c.ring_len = n
              /\ cctx'.read_buffer = [i \in 1..(n - first) |-> cctx.read_buffer[first + i]]
              /\ cctx'.eof = (cctx.eof \/ (c.eof /\ n - first <= cctx.overlap_samples)) ]_vars

C30_Witness ==
    /\ Len(hist.chunks) >= 1
    /\ cctx.next_chunk_idx = Len(hist.chunks)
    /\ hist.chunks[Len(hist.chunks)].eof
    /\ ~cctx.eof
    /\ cctx.overlap_samples > 0
    /\ Len(cctx.read_buffer) > cctx.overlap_samples

\* C27: a start command carries the session counter read when start() was
\* called and runs a stream only if the counter still has that value when the
\* controller thread takes it: a start that a stop() has overtaken is dropped
\* without a worker, an engine call, a new_segment, a progress or a
\* stream_complete event, while every load the controller takes runs
\* load_model whatever the session counter is.
C27_StaleStartDiscarded ==
    /\ [][ jni'.session_id >= jni.session_id ]_vars
    /\ [][ Len(jni'.queue) > Len(jni.queue) =>
             jni'.queue[Len(jni'.queue)].session_id = jni.session_id ]_vars
    /\ [][ (Len(hist'.executed) > Len(hist.executed) /\ Head(jni.queue).type = "CMD_START") =>
             /\ ctl'.pc = "queued"
             /\ ctl'.args_session_id = Head(jni.queue).session_id ]_vars
    /\ [][ (ctl.pc = "queued" /\ ctl'.pc # "queued") =>
             /\ ctl'.pc \in {"stream", "init_failed"} => ctl.args_session_id = jni.session_id
             /\ ctl.args_session_id # jni.session_id =>
                   /\ ctl'.pc = "idle"
                   /\ loc' = loc
                   /\ hist'.begun = hist.begun
                   /\ hist'.chunks = hist.chunks
                   /\ \/ hist'.events = hist.events
                      \/ hist'.events = Append(hist.events, report_error("start", 0)) ]_vars
    /\ []((\E w \in Workers : loc[w].pc \notin {"none", "exited"}) => ctl.pc = "stream")
    /\ [][ (Len(hist'.events) > Len(hist.events)
             /\ hist'.events[Len(hist'.events)].type \in {"new_segment", "progress", "stream_complete"}) =>
               ctl.pc \in {"stream", "complete"} ]_vars
    /\ [][ (Len(hist'.executed) > Len(hist.executed) /\ Head(jni.queue).type # "CMD_START") =>
             \E l \in hist'.loads \ hist.loads : l.seq = Head(jni.queue).seq ]_vars

C27_Witness ==
    /\ ctl.pc = "idle"
    /\ hist.executed = << 1, 2, 3 >>
    /\ jni.slots[0].ctx
    /\ jni.slots[1].ctx
    /\ jni.session_id = 1
    /\ ctl.args_session_id = 0
    /\ ~ctl.was_stopped
    /\ hist.begun = << >>
    /\ hist.chunks = << >>
    /\ Len(hist.events) = 2
    /\ \A k \in 1..2 : hist.events[k].type = "loaded"
    /\ \E l \in hist.loads : l.seq = 3 /\ l.outcome = "ok"

\* C22: every event the host receives (loaded, progress, new_segment,
\* stream_complete, error) is delivered by the controller thread, in
\* single-worker and in dual-worker mode.
C22_EventsOnControllerThread ==
    [][ Len(hist'.events) > Len(hist.events) =>
          LET e == hist'.events[Len(hist'.events)]
          IN  /\ e.type = "new_segment" => thread_of(e.worker) = "controller"
              /\ e.type = "progress" =>
                    \A w \in Workers :
                       loc'[w].prog # loc[w].prog => thread_of(w) = "controller"
              /\ e.type \in {"loaded", "error", "stream_complete"} => loc' = loc ]_vars

\* C26: in a dual-worker run the inference context of slot 0 is read and
\* written only on worker 0's thread and that of slot 1 only on worker 1's
\* thread, the reads made by the segment delivery and by the context hand-off
\* that run on a worker's thread included.
C26_ContextsNotShared ==
    [][ ~cctx.single_thread =>
          \A w \in Workers :
             /\ (/\ Len(hist'.events) > Len(hist.events)
                 /\ hist'.events[Len(hist'.events)].type = "new_segment"
                 /\ hist'.events[Len(hist'.events)].worker = w)
                   => segment_callback_contexts(w) \subseteq {w}
             /\ (\E r \in hist'.passed \ hist.passed : r.worker = w)
                   => pass_context_contexts(w) \subseteq {w} ]_vars

\* C21: destroy() called while a stream runs increments the session counter
\* and requests shutdown without releasing anything, the slots and the
\* controller state are released only when the controller thread has finished
\* and every worker of the run has returned from its engine call, and destroy()
\* eventually returns.
C21_DestroyWhileRunning ==
    /\ [][ (host.destroy = "none" /\ host'.destroy # "none") =>
             /\ host'.destroy = "joining"
             /\ jni'.session_id = jni.session_id + 1
             /\ jni'.should_shutdown
             /\ jni'.slots = jni.slots ]_vars
    /\ [][ (jni'.slots # jni.slots \/ host'.destroy = "released") =>
             /\ ctl.pc = "finished"
             /\ \A w \in Workers : ~InEngine(w) /\ loc[w].pc \in {"none", "exited"} ]_vars
    /\ [](host.destroy = "released" =>
             /\ ctl.pc = "finished"
             /\ \A w \in Workers : loc[w].pc \in {"none", "exited"})
    /\ (host.destroy = "joining") ~> (host.destroy = "released")

C21_Witness ==
    /\ host.destroy = "released"
    /\ ~cctx.single_thread
    /\ hist.destroy_in_engine = {0, 1}
    /\ \A w \in Workers : ~jni.slots[w].ctx

\* the boundary find_chunk_boundary selected for the chunk worker w has cut
SelectedBoundary(w) ==
    LET vad == vad_for_chunk(w)
    IN  find_chunk_boundary(cctx, Len(cctx.read_buffer) - loc[w].ci.overlap_offset,
                            vad.vad_segs, vad.vad_start).boundary

\* C31: when the producer reached EOF during the fill for a chunk and fewer
\* than min_chunk_samples new samples would be left after the selected
\* boundary, the chunk takes all new samples (buffer length - overlap_offset);
\* its hand-off then marks the stream EOF and no later chunk is begun or given
\* to the engine.
C31_EofTailConsumed ==
    /\ \A w \in Workers :
          (/\ loc[w].pc = "handoff"
           /\ loc[w].eof
           /\ Len(cctx.read_buffer) - loc[w].ci.overlap_offset - SelectedBoundary(w)
                 < cctx.min_chunk_samples)
             => loc[w].ci.chunk_samples = Len(cctx.read_buffer) - loc[w].ci.overlap_offset
    /\ \A k \in 1..Len(hist.chunks) :
          (/\ hist.chunks[k].eof
           /\ hist.chunks[k].chunk_samples
                 = hist.chunks[k].ring_len - hist.chunks[k].overlap_offset)
             => /\ cctx.eof
                /\ k = Len(hist.chunks)
                /\ Len(hist.begun) = k

C31_Witness ==
    \E w \in Workers :
       /\ loc[w].pc = "handoff"
       /\ loc[w].eof
       /\ loc[w].chunk_idx > 0
       /\ SelectedBoundary(w) < loc[w].ci.chunk_samples
       /\ loc[w].ci.chunk_samples = Len(cctx.read_buffer) - loc[w].ci.overlap_offset

\* C32: for every chunk handed to the engine, overlap_offset is 0 for chunk 0
\* and overlap_samples for later chunks, actual_samples = chunk_samples +
\* overlap_offset, time_offset = 100 * (samples_before - overlap_offset) /
\* sample_rate in integer division, and time_offset is non-negative and does
\* not decrease from a chunk to the next.
C32_ChunkDescriptor ==
    \A k \in 1..Len(hist.chunks) :
       LET c == hist.chunks[k]
       IN  /\ c.overlap_offset = IF c.idx = 0 THEN 0 ELSE cctx.overlap_samples
           /\ c.actual_chunk_samples = c.chunk_samples + c.overlap_offset
           /\ c.time_offset = CDiv(100 * (c.samples_before - c.overlap_offset),
                                   WHISPER_SAMPLE_RATE)
           /\ c.time_offset >= 0
           /\ k > 1 => c.time_offset >= hist.chunks[k - 1].time_offset

C32_Witness ==
    \E k \in 1..Len(hist.chunks) :
       /\ hist.chunks[k].idx > 0
       /\ hist.chunks[k].overlap_offset > 0
       /\ hist.chunks[k].samples_before < hist.chunks[k].overlap_offset
       /\ hist.chunks[k].time_offset = 0
       /\ k < Len(hist.chunks)

\* the positions of a worker whose step runs between pthread_mutex_lock and
\* pthread_mutex_unlock in dual-worker mode: wait_for_turn and its wait,
\* handoff_to_next, stream_context_callback and its wait, and pass_context;
\* wait_for_turn unlocks before it returns, so the fill, the VAD, the boundary
\* selection and the copy of process_one_chunk run without the mutex
holds_mutex(pc) ==
    pc \in {"wait_for_turn", "turn_wait", "handoff", "context_callback", "ctx_wait",
            "full_done"}

\* C33: in dual-worker mode every read or write of the ring buffer, of
\* next_chunk_idx, total_samples_read and eof, of a worker's token array and of
\* a context_ready flag is made by a thread that holds the shared mutex; the
\* chunker (fill, VAD, boundary selection, copy) runs with the mutex held.
C33_SharedStateUnderMutex ==
    [][ ~cctx.single_thread =>
          \A w \in Workers :
             /\ (loc[w].pc \in {"fill", "handoff"} /\ cctx'.read_buffer # cctx.read_buffer)
                   => holds_mutex(loc[w].pc)
             /\ (loc[w].pc = "fill" /\ loc'[w].pc = "handoff")
                   => holds_mutex(loc[w].pc)
             /\ (loc'[w].pc # loc[w].pc
                 /\ \/ cctx'.next_chunk_idx # cctx.next_chunk_idx
                    \/ cctx'.total_samples_read # cctx.total_samples_read)
                   => holds_mutex(loc[w].pc)
             /\ (loc'[w].pc # loc[w].pc /\ loc[w].pc \notin {"turn_wait", "ctx_wait"}
                 /\ \E v \in Workers : \/ tctx'[v].tokens # tctx[v].tokens
                                        \/ tctx'[v].context_ready # tctx[v].context_ready)
                   => holds_mutex(loc[w].pc) ]_vars

\* the chunks whose engine call returned successfully
Completed == {r.chunk : r \in hist.passed}

\* the lowest-indexed chunk whose engine call has not completed
LowestIncomplete == CHOOSE i \in 0..Cardinality(Completed) :
                       i \notin Completed /\ \A j \in 0..(i - 1) : j \in Completed

\* C34: progress_reporter names worker 0 when the run starts and is switched
\* to the peer at each successful chunk completion; engine progress is
\* forwarded only from the worker it names, so every forwarded progress value
\* belongs to the lowest-indexed chunk whose engine call has not completed.
C34_OneProgressReporter ==
    /\ []((ctl.pc = "stream" /\ hist.passed = {}) => cctx.progress_reporter = 0)
    /\ [][ \A r \in hist'.passed \ hist.passed :
             cctx'.progress_reporter = r.to ]_vars
    /\ [][ cctx'.progress_reporter # cctx.progress_reporter =>
             \/ hist'.passed # hist.passed
             \/ ctl.pc = "queued" ]_vars
    /\ [][ (Len(hist'.events) > Len(hist.events)
             /\ hist'.events[Len(hist'.events)].type = "progress") =>
               \A w \in Workers :
                  loc'[w].prog # loc[w].prog =>
                     /\ cctx.progress_reporter = w
                     /\ loc[w].chunk_idx = LowestIncomplete ]_vars

C34_Witness ==
    /\ ~cctx.single_thread
    /\ Len(Progress) >= 3
    /\ cctx.progress_reporter = 0
    /\ loc[0].chunk_idx = 2
    /\ loc[0].prog > 0
    /\ InEngine(1)
    /\ loc[1].chunk_idx = 3

\* the sum of chunk_samples over the first k chunks handed to the engine
RECURSIVE NewSamples(_)
NewSamples(k) == IF k = 0 THEN 0 ELSE NewSamples(k - 1) + hist.chunks[k].chunk_samples

\* C35: in a run that ends at the producer's EOF without abort the new content
\* of the chunks partitions the stream: samples_before of chunk 0 is 0, that of
\* chunk i+1 is samples_before(i) + chunk_samples(i), the new content of a chunk
\* is the samples that follow the samples_before ones, and the chunk_samples
\* add up to the number of samples the producer delivered.
C35_ChunksPartitionStream ==
    /\ \A k \in 1..Len(hist.chunks) :
          LET c == hist.chunks[k]
          IN  /\ c.samples_before = NewSamples(k - 1)
              /\ (host.stops = 0 /\ ~cctx.abort) =>
                    SubSeq(c.buffer, c.overlap_offset + 1, c.actual_chunk_samples)
                       = [i \in 1..c.chunk_samples |-> c.samples_before + i]
    /\ (ctl.pc = "idle" /\ host.stops = 0 /\ ~cctx.abort) =>
          NewSamples(Len(hist.chunks)) = host.pos

\* the bounds stream_segment_callback clips the segments of a chunk to
ClipUpper(c) == c.time_offset + CDiv(c.chunk_samples * 100, WHISPER_SAMPLE_RATE)
ClipLower(c) == c.time_offset + CDiv(c.overlap_offset * 100, WHISPER_SAMPLE_RATE)

\* C36: the emission windows of consecutive chunks tile the timeline: the upper
\* clip bound of chunk i, time_offset(i) + chunk_samples(i) in centiseconds,
\* equals the lower clip bound output_start(i+1) of chunk i+1.
C36_WindowsTile ==
    \A k \in 1..(Len(hist.chunks) - 1) :
       ClipUpper(hist.chunks[k]) = ClipLower(hist.chunks[k + 1])

\* C37: in single- and in dual-worker mode delivered segments do not overlap
\* in time: the t0 of each delivered segment is at least the t1 of the segment
\* delivered just before it, also when the two come from consecutive chunks
\* decoded by different workers.
C37_SegmentsDisjoint ==
    \A k \in 1..(Len(Segments) - 1) : Segments[k + 1].t0 >= Segments[k].t1

\* C38: in dual-worker mode context_ready of the receiving worker is false at
\* every hand-off, and every context callback that returns a context consumes
\* the hand-off of the chunk just before its own, so no handed-off context is
\* overwritten unconsumed or consumed by a later chunk, whether or not the
\* engine calls the context callback in every call.
C38_HandoffConsumedOnce ==
    /\ [][ ~cctx.single_thread =>
             \A p \in hist'.passed \ hist.passed : ~tctx[p.to].context_ready ]_vars
    /\ [](~cctx.single_thread =>
             \A r \in hist.ctxcb :
                ~r.aborted =>
                   \E p \in hist.passed : p.chunk = r.chunk - 1 /\ p.to = r.worker)

\* C39: in dual-worker mode, when the producer reaches EOF and nothing aborts,
\* both workers leave their loops, the one that does not own the last chunk
\* being released from its parity wait by the eof flag, and whisper_stream_full
\* returns after it has joined the second worker; no worker is left waiting
\* once the run has returned.
C39_DualRunTerminates ==
    /\ (ctl.pc = "stream" /\ ~cctx.single_thread) ~> (ctl.pc \in {"complete", "idle"})
    /\ \A w \in Workers :
          (ctl.pc = "stream" /\ ~cctx.single_thread /\ cctx.eof /\ Blocked(w))
             ~> (loc[w].pc = "exited")
    /\ []((ctl.pc \in {"complete", "idle"} /\ ~cctx.single_thread) =>
             \A w \in Workers :
                /\ loc[w].pc \in {"none", "exited"}
                /\ hist.begun # << >> => loc[w].pc = "exited")
    /\ []((ctl.pc \in {"complete", "idle"} /\ ~cctx.abort /\ host.stops = 0) =>
             /\ ctl.result = 0
             /\ host.pos = env.audio_len)

C39_Witness ==
    /\ ctl.pc = "idle"
    /\ ~cctx.single_thread
    /\ ~cctx.abort
    /\ host.stops = 0
    /\ Len(hist.chunks) = 4
    /\ \A w \in Workers : loc[w].pc = "exited"


====
